---- MODULE Spec2Model ----
(***************************************************************************)
(* dogfetch: the fetch-paginate-retry-write pipeline.                      *)
(*                                                                         *)
(* Fetcher.Fetch / fetchPageWithRetry (internal/fetcher/fetcher.go), the   *)
(* retry policy (internal/fetcher/retry.go) and the two output sinks       *)
(* (internal/writer/{writer,json,ndjson}.go) as one state machine.         *)
(* Durations are whole seconds.                                            *)
(***************************************************************************)
EXTENDS Integers, Sequences, FiniteSets, TLC

VARIABLES
    cfg,            \* config.Config: the fields Fetch and writer.New read
    pc,             \* position of Fetch (see Positions)
    cursor,         \* Fetch: cursor
    totalLogs,      \* Fetch: totalLogs
    pageCount,      \* Fetch: pageCount
    attempt,        \* fetchPageWithRetry: attempt
    httpResp,       \* fetchPageWithRetry: httpResp of the last attempt
    backoff,        \* fetchPageWithRetry: delay handed to time.After
    cancelled,      \* ctx.Done() is closed
    timerReady,     \* the channel of time.After(backoff) holds a value
    writer,         \* f.writer: the sink object
    dest,           \* content of the destination the sink writes to
    dest0,          \* what the destination held before the sink was constructed
    errOut,         \* f.errOut: the progress channel, a list of messages
    result,         \* what Fetch returned (what New returned, if it failed)
    finalizeCalls,  \* number of calls of writer.Finalize
    closeCalls,     \* number of calls of writer.Close
    calls,          \* remote calls issued: cursor, attempt, ctx state at issue
    resps,          \* what each remote call returned
    waits,          \* backoff waits of the page being fetched
    callErr,        \* fetchPageWithRetry: err, what the last fetchPage returned
    retryErr,       \* fetchPageWithRetry: retryErr, the classification of err
    shouldRetry,    \* fetchPageWithRetry: shouldRetry
    runs,           \* earlier invocations on the same destination, oldest first
    sinkOps         \* the calls made on the sink, oldest first

vars == << cfg, pc, cursor, totalLogs, pageCount, attempt, httpResp, backoff,
           cancelled, timerReady, writer, dest, dest0, errOut, result,
           finalizeCalls, closeCalls, calls, resps, waits,
           callErr, retryErr, shouldRetry, runs, sinkOps >>

---------------------------------------------------------------------------
(* Bounds of the model *)

\* the remote serves at most MaxPages pages in a run
MaxPages == 2
\* a page holds at most MaxRecords records
MaxRecords == 2
\* the remote answers at most MaxFailures calls of a run with an error
MaxFailures == 4

(* retry.go: const block *)
maxRetries == 3
baseBackoff == 1
rateLimitWait == 60

\* time.Now() as seen by parseRetryAfter, seconds since the epoch
Now == 100

---------------------------------------------------------------------------
(* Values *)

\* initial cursors of a run: none, or one handed over from an earlier run
InitialCursors == {"", "C1"}
\* continuation cursors the remote hands out, a fresh one with every page
ContinuationCursors == << "C2", "C3", "C4", "C5" >>

\* a *http.Response: nil, or a status code and the Retry-After header
\* (a sequence of one-character strings; empty when the header is absent)
NilResp == [isNil |-> TRUE, StatusCode |-> 0, RetryAfter |-> <<>>]
Resp(status, header) == [isNil |-> FALSE, StatusCode |-> status, RetryAfter |-> header]

\* an error value: nil, or a message and the error it wraps
NilErr == [isNil |-> TRUE, msg |-> "", status |-> 0, wraps |-> ""]
Err(msg, wraps) == [isNil |-> FALSE, msg |-> msg, status |-> 0, wraps |-> wraps]
\* Fetch has not returned yet
NotReturned == [isNil |-> FALSE, msg |-> "<running>", status |-> 0, wraps |-> ""]

\* the error a failed remote call carries, ctx.Err() and an I/O error
RemoteErr == Err("remote error", "")
CtxErr == Err("context canceled", "")
IOErr == Err("i/o error", "")
\* the error of a remote call whose request was given up because its
\* context was cancelled while it was in flight
AbortedErr == Err("request aborted", "context canceled")

\* the i-th record of the page served for a cursor
Log(c, i) == << c, i >>

---------------------------------------------------------------------------
(* internal/fetcher/retry.go *)

DigitChars == << "0", "1", "2", "3", "4", "5", "6", "7", "8", "9" >>
IsDigit(c) == \E i \in 1..10 : DigitChars[i] = c
DigitVal(c) == (CHOOSE i \in 1..10 : DigitChars[i] = c) - 1

RECURSIVE DecimalValue(_)
DecimalValue(s) ==
    IF s = <<>> THEN 0
    ELSE DecimalValue(SubSeq(s, 1, Len(s) - 1)) * 10 + DigitVal(s[Len(s)])

\* strconv.Atoi: an optional sign, then one or more decimal digits
Atoi(s) ==
    LET signed == s # <<>> /\ s[1] \in {"+", "-"}
        digits == IF signed THEN Tail(s) ELSE s
        ok     == digits # <<>> /\ \A i \in 1..Len(digits) : IsDigit(digits[i])
    IN  IF ~ok THEN [ok |-> FALSE, val |-> 0]
        ELSE [ok |-> TRUE,
              val |-> IF s[1] = "-" THEN 0 - DecimalValue(digits)
                                    ELSE DecimalValue(digits)]

\* http.ParseTime on the HTTP dates the model knows: the header text, one
\* token per element, and the instant it denotes (seconds since the epoch)
HTTPDates ==
    { [text |-> << "Thu,", "01", "Jan", "1970", "00:00:40", "GMT" >>, at |-> 40],
      [text |-> << "Thu,", "01", "Jan", "1970", "00:01:40", "GMT" >>, at |-> 100],
      [text |-> << "Thu,", "01", "Jan", "1970", "00:02:10", "GMT" >>, at |-> 130] }
ParseTime(s) ==
    IF \E d \in HTTPDates : d.text = s
    THEN [ok |-> TRUE, at |-> (CHOOSE d \in HTTPDates : d.text = s).at]
    ELSE [ok |-> FALSE, at |-> 0]

parseRetryAfter(resp) ==
    LET header == resp.RetryAfter
    IN  IF header = <<>> THEN 0
        ELSE IF Atoi(header).ok THEN Atoi(header).val
        ELSE IF ParseTime(header).ok THEN ParseTime(header).at - Now
        ELSE 0

\* a *RetryableError: nil, or {Retryable, RetryAfter}
NilRetryable == [isNil |-> TRUE, Retryable |-> FALSE, RetryAfter |-> 0]

ClassifyError_defaultNotRetryable(err, resp) ==
    IF err.isNil THEN NilRetryable
    ELSE IF resp.isNil THEN [isNil |-> FALSE, Retryable |-> TRUE, RetryAfter |-> 0]
    ELSE IF resp.StatusCode = 429
         THEN [isNil |-> FALSE, Retryable |-> TRUE,
               RetryAfter |-> IF parseRetryAfter(resp) = 0 THEN rateLimitWait
                              ELSE parseRetryAfter(resp)]
    ELSE [isNil |-> FALSE, Retryable |-> resp.StatusCode \in {500, 502, 503, 504},
          RetryAfter |-> 0]

ClassifyError_noFallback(err, resp) ==
    IF err.isNil THEN NilRetryable
    ELSE IF resp.isNil THEN [isNil |-> FALSE, Retryable |-> TRUE, RetryAfter |-> 0]
    ELSE IF resp.StatusCode = 429
         THEN [isNil |-> FALSE, Retryable |-> TRUE,
               RetryAfter |-> IF resp.RetryAfter = <<>> THEN rateLimitWait
                              ELSE parseRetryAfter(resp)]
    ELSE [isNil |-> FALSE,
          Retryable |-> resp.StatusCode >= 500, RetryAfter |-> 0]

ClassifyError(err, resp) ==
    IF err.isNil THEN NilRetryable
    ELSE IF resp.isNil THEN [isNil |-> FALSE, Retryable |-> TRUE, RetryAfter |-> 0]
    ELSE IF resp.StatusCode = 429
         THEN [isNil |-> FALSE, Retryable |-> TRUE,
               RetryAfter |-> IF parseRetryAfter(resp) = 0 THEN rateLimitWait
                              ELSE parseRetryAfter(resp)]
    ELSE IF resp.StatusCode \in {500, 502, 503, 504}
         THEN [isNil |-> FALSE, Retryable |-> TRUE, RetryAfter |-> 0]
    ELSE IF resp.StatusCode \in {400, 401, 403, 404}
         THEN [isNil |-> FALSE, Retryable |-> FALSE, RetryAfter |-> 0]
    ELSE [isNil |-> FALSE, Retryable |-> resp.StatusCode >= 500, RetryAfter |-> 0]

RECURSIVE Pow2(_)
Pow2(n) == IF n <= 0 THEN 1 ELSE 2 * Pow2(n - 1)

ExponentialBackoff_linear(n) == baseBackoff * (n + 1)

ExponentialBackoff(n) == baseBackoff * Pow2(n)

ShouldRetry_ignoresVerdict(n, re) ==
    IF re.isNil THEN [retry |-> FALSE, delay |-> 0]
    ELSE IF n >= maxRetries THEN [retry |-> FALSE, delay |-> 0]
    ELSE IF re.RetryAfter > 0 THEN [retry |-> TRUE, delay |-> re.RetryAfter]
    ELSE [retry |-> TRUE, delay |-> ExponentialBackoff(n)]

ShouldRetry_delayBeforeCeiling(n, re) ==
    IF re.isNil \/ ~re.Retryable THEN [retry |-> FALSE, delay |-> 0]
    ELSE IF re.RetryAfter > 0 THEN [retry |-> TRUE, delay |-> re.RetryAfter]
    ELSE IF n >= maxRetries THEN [retry |-> FALSE, delay |-> 0]
    ELSE [retry |-> TRUE, delay |-> ExponentialBackoff(n)]

ShouldRetry_longerOfBoth(n, re) ==
    IF re.isNil \/ ~re.Retryable THEN [retry |-> FALSE, delay |-> 0]
    ELSE IF n >= maxRetries THEN [retry |-> FALSE, delay |-> 0]
    ELSE IF re.RetryAfter > ExponentialBackoff(n)
         THEN [retry |-> TRUE, delay |-> re.RetryAfter]
    ELSE [retry |-> TRUE, delay |-> ExponentialBackoff(n)]

ShouldRetry_ceilingOffByOne(n, re) ==
    IF re.isNil \/ ~re.Retryable THEN [retry |-> FALSE, delay |-> 0]
    ELSE IF n > maxRetries THEN [retry |-> FALSE, delay |-> 0]
    ELSE IF re.RetryAfter > 0 THEN [retry |-> TRUE, delay |-> re.RetryAfter]
    ELSE [retry |-> TRUE, delay |-> ExponentialBackoff(n)]

ShouldRetry_anyRetryAfter(n, re) ==
    IF re.isNil \/ ~re.Retryable THEN [retry |-> FALSE, delay |-> 0]
    ELSE IF n >= maxRetries THEN [retry |-> FALSE, delay |-> 0]
    ELSE IF re.RetryAfter # 0 THEN [retry |-> TRUE, delay |-> re.RetryAfter]
    ELSE [retry |-> TRUE, delay |-> ExponentialBackoff(n)]

ShouldRetry(n, re) ==
    IF re.isNil \/ ~re.Retryable THEN [retry |-> FALSE, delay |-> 0]
    ELSE IF n >= maxRetries THEN [retry |-> FALSE, delay |-> 0]
    ELSE IF re.RetryAfter > 0 THEN [retry |-> TRUE, delay |-> re.RetryAfter]
    ELSE [retry |-> TRUE, delay |-> ExponentialBackoff(n)]

FormatRetryError_plainRateLimit(err, resp) ==
    IF resp.isNil THEN Err("network error", err.msg)
    ELSE IF resp.StatusCode = 401 THEN Err("authentication failed", "")
    ELSE IF resp.StatusCode = 403 THEN Err("permission denied", "")
    ELSE IF resp.StatusCode = 429 THEN Err("rate limit exceeded", "")
    ELSE [isNil |-> FALSE, msg |-> "API error (status %d)",
          status |-> resp.StatusCode, wraps |-> err.msg]

FormatRetryError(err, resp) ==
    IF resp.isNil THEN Err("network error", err.msg)
    ELSE IF resp.StatusCode = 401 THEN Err("authentication failed", "")
    ELSE IF resp.StatusCode = 403 THEN Err("permission denied", "")
    ELSE IF resp.StatusCode = 429 THEN Err("rate limit exceeded", err.msg)
    ELSE [isNil |-> FALSE, msg |-> "API error (status %d)",
          status |-> resp.StatusCode, wraps |-> err.msg]

---------------------------------------------------------------------------
(* internal/writer: the two sinks behind the Writer interface *)

\* what the sinks put into the destination: one line per record (ndjson),
\* or one document holding all records and the meta block (json)
EncodeLine(log) == << "line", log >>
EncodeDocument(logs, pages) == << "doc", logs, Len(logs), pages >>

\* outcomes of the I/O a sink operation performs
IOOutcomes == {"ok", "open fails", "write fails"}

\* the content of a destination the process may not open for writing
NoAccess == << << "EACCES" >> >>

\* what opening the file holding d for writing can come to, and what the
\* open and the writes after it can come to
OpenOutcome(d) == IF d = NoAccess THEN "open fails" ELSE "ok"
OutcomesOn(d) == IF d = NoAccess THEN {"open fails"} ELSE IOOutcomes

\* no sink: what a failed constructor returns
NilWriter ==
    [format |-> "", path |-> "", logs |-> <<>>, pageCount |-> 0,
     shouldClose |-> FALSE, closed |-> FALSE]

NewJSONWriter(path) ==
    [format |-> "json", path |-> path, logs |-> <<>>, pageCount |-> 0,
     shouldClose |-> TRUE, closed |-> FALSE]

NewJSONWriterWithOutput ==
    [format |-> "json", path |-> "", logs |-> <<>>, pageCount |-> 0,
     shouldClose |-> FALSE, closed |-> FALSE]

NewNDJSONWriter_alwaysTruncates(path, append, d, io) ==
    IF io = "open fails" THEN [w |-> NilWriter, d |-> d, err |-> IOErr]
    ELSE [w |-> [format |-> "ndjson", path |-> path, logs |-> <<>>,
                 pageCount |-> 0, shouldClose |-> TRUE, closed |-> FALSE],
          d |-> <<>>,
          err |-> NilErr]

NewNDJSONWriter_alwaysAppends(path, append, d, io) ==
    IF io = "open fails" THEN [w |-> NilWriter, d |-> d, err |-> IOErr]
    ELSE [w |-> [format |-> "ndjson", path |-> path, logs |-> <<>>,
                 pageCount |-> 0, shouldClose |-> TRUE, closed |-> FALSE],
          d |-> d,
          err |-> NilErr]

\* os.OpenFile(path, O_CREATE|O_WRONLY|(O_APPEND or O_TRUNC)) on a file
\* holding d; gives the sink, the file's content and the error
NewNDJSONWriter(path, append, d, io) ==
    IF io = "open fails" THEN [w |-> NilWriter, d |-> d, err |-> IOErr]
    ELSE [w |-> [format |-> "ndjson", path |-> path, logs |-> <<>>,
                 pageCount |-> 0, shouldClose |-> TRUE, closed |-> FALSE],
          d |-> IF append THEN d ELSE <<>>,
          err |-> NilErr]

NewNDJSONWriterWithOutput ==
    [format |-> "ndjson", path |-> "", logs |-> <<>>, pageCount |-> 0,
     shouldClose |-> FALSE, closed |-> FALSE]

New_fallsBackToNDJSON(format, path, append, d, io) ==
    IF format = "json"
    THEN [w |-> IF path = "" THEN NewJSONWriterWithOutput ELSE NewJSONWriter(path),
          d |-> d, err |-> NilErr]
    ELSE IF path = "" THEN [w |-> NewNDJSONWriterWithOutput, d |-> d, err |-> NilErr]
    ELSE NewNDJSONWriter(path, append, d, io)

\* writer.New: the sink for a format, path "" meaning standard output
New(format, path, append, d, io) ==
    CASE format = "json" ->
           [w |-> IF path = "" THEN NewJSONWriterWithOutput ELSE NewJSONWriter(path),
            d |-> d, err |-> NilErr]
      [] format = "ndjson" ->
           IF path = "" THEN [w |-> NewNDJSONWriterWithOutput, d |-> d, err |-> NilErr]
           ELSE NewNDJSONWriter(path, append, d, io)
      [] OTHER -> [w |-> NilWriter, d |-> d, err |-> Err("unsupported format", "")]

\* The operations below take the sink w and the content d of its
\* destination and give the sink, the destination and the returned error.

JSONWriter_WritePage_writesThrough(w, d, logs) ==
    [w |-> [w EXCEPT !.logs = w.logs \o logs, !.pageCount = w.pageCount + 1],
     d |-> d \o [i \in 1..Len(logs) |-> EncodeLine(logs[i])], err |-> NilErr]

JSONWriter_WritePage_skipsEmptyPages(w, d, logs) ==
    [w |-> [w EXCEPT !.logs = w.logs \o logs,
                     !.pageCount = w.pageCount + (IF Len(logs) = 0 THEN 0 ELSE 1)],
     d |-> d, err |-> NilErr]

\* JSONWriter.WritePage: buffers the page
JSONWriter_WritePage(w, d, logs) ==
    [w |-> [w EXCEPT !.logs = w.logs \o logs, !.pageCount = w.pageCount + 1],
     d |-> d, err |-> NilErr]

NDJSONWriter_WritePage_holdsBack(w, d, logs, failAt) ==
    [w |-> [w EXCEPT !.logs = w.logs \o logs], d |-> d, err |-> NilErr]

\* NDJSONWriter.WritePage: encodes record after record into the destination.
\* failAt = k > 0: encoding the k-th record fails with an I/O error.
NDJSONWriter_WritePage(w, d, logs, failAt) ==
    LET written == IF failAt = 0 THEN Len(logs) ELSE failAt - 1
    IN  [w |-> w,
         d |-> d \o [i \in 1..written |-> EncodeLine(logs[i])],
         err |-> IF failAt = 0 THEN NilErr ELSE IOErr]

\* JSONWriter.Finalize: one document, to the writer it was given or to the
\* file it creates (truncating it) now
JSONWriter_Finalize(w, d, io) ==
    LET doc == EncodeDocument(w.logs, w.pageCount)
    IN  IF w.path = ""
        THEN IF io = "write fails" THEN [w |-> w, d |-> d, err |-> IOErr]
             ELSE [w |-> w, d |-> Append(d, doc), err |-> NilErr]
        ELSE CASE io = "open fails"  -> [w |-> w, d |-> d, err |-> IOErr]
               [] io = "write fails" -> [w |-> w, d |-> <<>>, err |-> IOErr]
               [] OTHER -> [w |-> w, d |-> << doc >>, err |-> NilErr]

NDJSONWriter_Finalize_writesSummary(w, d) ==
    [w |-> w, d |-> Append(d, EncodeDocument(<<>>, 0)), err |-> NilErr]

\* NDJSONWriter.Finalize: a no-op
NDJSONWriter_Finalize(w, d) == [w |-> w, d |-> d, err |-> NilErr]

\* JSONWriter.Close: a no-op
JSONWriter_Close(w) == [w |-> w, err |-> NilErr]

\* NDJSONWriter.Close: closes the file if the sink opened one; os.File.Close
\* on a file that is closed already returns an error
NDJSONWriter_Close(w) ==
    IF ~w.shouldClose THEN [w |-> w, err |-> NilErr]
    ELSE IF w.closed THEN [w |-> w, err |-> Err("file already closed", "")]
    ELSE [w |-> [w EXCEPT !.closed = TRUE], err |-> NilErr]

\* the Writer interface: dispatch on the sink behind it
WritePage(w, d, logs, failAt) ==
    IF w.format = "json" THEN JSONWriter_WritePage(w, d, logs)
    ELSE NDJSONWriter_WritePage(w, d, logs, failAt)

Finalize(w, d, io) ==
    IF w.format = "json" THEN JSONWriter_Finalize(w, d, io)
    ELSE NDJSONWriter_Finalize(w, d)

Close(w) ==
    IF w.format = "json" THEN JSONWriter_Close(w) ELSE NDJSONWriter_Close(w)

---------------------------------------------------------------------------
(* internal/config: what Validate lets through to the fetcher *)

\* time.Time as a number of ticks, the zero Time being 0
ZeroTime == 0
IsZero(t) == t = ZeroTime
After(t, u) == t > u

Validate_cursorWithAnyFormat(c) ==
    IF c.Query = "" THEN Err("query is required", "")
    ELSE IF c.APIKey = "" THEN Err("DD_API_KEY environment variable is required", "")
    ELSE IF c.AppKey = "" THEN Err("DD_APP_KEY environment variable is required", "")
    ELSE IF c.PageSize < 1 \/ c.PageSize > 5000
         THEN Err("pageSize must be between 1 and 5000, got " \o ToString(c.PageSize), "")
    ELSE IF c.Format # "json" /\ c.Format # "ndjson"
         THEN Err("format must be 'json' or 'ndjson', got '" \o c.Format \o "'", "")
    ELSE IF c.Append /\ c.Format # "ndjson"
         THEN Err("--append only works with --format ndjson", "")
    ELSE IF ~IsZero(c.To) /\ After(c.From, c.To)
         THEN Err("--from (" \o ToString(c.From) \o ") must be before --to ("
                  \o ToString(c.To) \o ")", "")
    ELSE NilErr

\* Config.Validate: the error of the first check that fails, or nil
Validate(c) ==
    IF c.Query = "" THEN Err("query is required", "")
    ELSE IF c.APIKey = "" THEN Err("DD_API_KEY environment variable is required", "")
    ELSE IF c.AppKey = "" THEN Err("DD_APP_KEY environment variable is required", "")
    ELSE IF c.PageSize < 1 \/ c.PageSize > 5000
         THEN Err("pageSize must be between 1 and 5000, got " \o ToString(c.PageSize), "")
    ELSE IF c.Format # "json" /\ c.Format # "ndjson"
         THEN Err("format must be 'json' or 'ndjson', got '" \o c.Format \o "'", "")
    ELSE IF c.Append /\ c.Format # "ndjson"
         THEN Err("--append only works with --format ndjson", "")
    ELSE IF c.Cursor # "" /\ c.Format # "ndjson"
         THEN Err("--cursor only works with --format ndjson", "")
    ELSE IF ~IsZero(c.To) /\ After(c.From, c.To)
         THEN Err("--from (" \o ToString(c.From) \o ") must be before --to ("
                  \o ToString(c.To) \o ")", "")
    ELSE NilErr

\* a Config with the query, the credentials, the page size and the time
\* range of a usual invocation
Config(format, startCursor, path, append) ==
    [Query |-> "service:web", APIKey |-> "api-key", AppKey |-> "app-key",
     PageSize |-> 1000, From |-> 1, To |-> 2,
     Format |-> format, Cursor |-> startCursor, OutputPath |-> path, Append |-> append]

Configs ==
    { c \in { Config(f, k, "out.file", a) :
                f \in {"json", "ndjson"}, k \in InitialCursors, a \in BOOLEAN } :
        Validate(c).isNil }

\* configurations a caller hands to fetcher.New without Validate
UnvalidatedConfigs ==
    { Config(f, "", "out.file", FALSE) : f \in {"xml", "JSON"} }

\* what the destination holds before the Fetcher is constructed: standard
\* output starts empty, the file holds a line of an earlier run
OldLine == EncodeLine(Log("C0", 1))
InitialContents(c) == IF c.OutputPath = "" THEN { <<>> } ELSE { << OldLine >> }

---------------------------------------------------------------------------
(* The remote collaborator: LogsApi.ListLogsGet behind fetchPage *)

\* responses that come with an error
FailureResponses ==
    { NilResp, Resp(503, <<>>), Resp(429, <<>>),
      Resp(401, <<>>), Resp(403, <<>>), Resp(404, <<>>) }

\* what a call with cursor c can return when `served` pages were already
\* served and `failed` calls already failed: a page of 0..MaxRecords records
\* with or without a continuation cursor (none once the remote is
\* exhausted), or an error
RemoteReturns(c, served, failed) ==
    { [err |-> NilErr, httpResp |-> Resp(200, <<>>),
       data |-> [i \in 1..n |-> Log(c, i)], after |-> a] :
         n \in 0..MaxRecords,
         a \in (IF served + 1 < MaxPages THEN {ContinuationCursors[served + 1]} ELSE {})
                  \cup {""} }
    \cup
    { [err |-> RemoteErr, httpResp |-> h, data |-> <<>>, after |-> ""] :
         h \in (IF failed < MaxFailures THEN FailureResponses ELSE {}) }

\* what fetchPage returns: ListLogsGet(ctx, opts) runs the request under the
\* context of the run, so the call returns what the remote returns or, once
\* the context is cancelled, gives the request up with the context's error
\* and no response
CallReturns(c, served, failed) ==
    RemoteReturns(c, served, failed)
    \cup
    (IF cancelled /\ failed < MaxFailures
     THEN { [err |-> AbortedErr, httpResp |-> NilResp, data |-> <<>>, after |-> ""] }
     ELSE {})

\* the pages the remote served so far
Served == Cardinality({ i \in 1..Len(resps) : resps[i].ok })

\* the calls that failed so far
Failed == Cardinality({ i \in 1..Len(resps) : ~resps[i].ok })

---------------------------------------------------------------------------
(* internal/fetcher: Fetcher.Fetch and fetchPageWithRetry *)

Positions ==
    {"NEW", "NEW_FAILED", "START", "LOOP_TOP", "FETCHING_PAGE", "RETRY_WAIT",
     "DONE", "CANCELLED", "FAILED", "WRITE_FAILED", "CANCELLED_IN_WAIT"}
Returned == {"DONE", "CANCELLED", "FAILED", "WRITE_FAILED", "CANCELLED_IN_WAIT"}

\* a line on the progress channel
Msg(kind, c, a, b) == [kind |-> kind, cursor |-> c, a |-> a, b |-> b]

\* resp.GetMetaOk / GetPageOk / GetAfterOk: the continuation cursor, "" if absent
NewCursor(r) == r.after

LastPage_cursorOnly(newCursor, logs) == newCursor = ""

\* "Check if we're done"
LastPage(newCursor, logs) == newCursor = "" \/ Len(logs) = 0

\* the cases of the select in fetchPageWithRetry that can proceed; Go picks
\* one of them at random when there are several
SelectCases(done, timer) ==
    (IF done THEN {"ctx.Done"} ELSE {}) \cup (IF timer THEN {"time.After"} ELSE {})

\* a configuration, validated by the command or handed over as it is, and
\* the destination as earlier runs left it; no Fetcher yet
InitAt(c, d0, position) ==
    /\ cfg = c
    /\ writer = NilWriter
    /\ dest = d0
    /\ dest0 = d0
    /\ pc = position
    /\ result = NotReturned
    /\ cursor = ""
    /\ totalLogs = 0
    /\ pageCount = 0
    /\ attempt = 0
    /\ httpResp = NilResp
    /\ backoff = 0
    /\ cancelled = FALSE
    /\ timerReady = FALSE
    /\ errOut = <<>>
    /\ finalizeCalls = 0
    /\ closeCalls = 0
    /\ calls = <<>>
    /\ resps = <<>>
    /\ waits = <<>>
    /\ callErr = NilErr
    /\ retryErr = NilRetryable
    /\ shouldRetry = FALSE
    /\ runs = <<>>
    /\ sinkOps = <<>>

Init ==
    \E c \in Configs \cup UnvalidatedConfigs : \E d0 \in InitialContents(c) :
        InitAt(c, d0, "NEW")

FetcherNew_opensOnFirstWrite ==
    /\ pc = "NEW"
    /\ LET n == New(cfg.Format, cfg.OutputPath, cfg.Append, dest, OpenOutcome(dest))
       IN  /\ writer' = n.w
           /\ dest' = dest
           /\ pc' = IF n.err.isNil THEN "START" ELSE "NEW_FAILED"
           /\ result' = IF n.err.isNil THEN NotReturned
                        ELSE Err("failed to create writer", n.err.msg)
    /\ UNCHANGED << cfg, dest0, sinkOps, callErr, retryErr, shouldRetry, runs, cursor,
                    totalLogs, pageCount, attempt, httpResp, backoff, cancelled,
                    timerReady, errOut, finalizeCalls, closeCalls, calls, resps,
                    waits >>

\* fetcher.New: the Fetcher around the sink of writer.New, or the error
\* "failed to create writer" and no Fetcher
FetcherNew ==
    /\ pc = "NEW"
    /\ LET n == New(cfg.Format, cfg.OutputPath, cfg.Append, dest, OpenOutcome(dest))
       IN  /\ writer' = n.w
           /\ dest' = n.d
           /\ pc' = IF n.err.isNil THEN "START" ELSE "NEW_FAILED"
           /\ result' = IF n.err.isNil THEN NotReturned
                        ELSE Err("failed to create writer", n.err.msg)
    /\ UNCHANGED << cfg, dest0, sinkOps, callErr, retryErr, shouldRetry, runs, cursor,
                    totalLogs, pageCount, attempt, httpResp, backoff, cancelled,
                    timerReady, errOut, finalizeCalls, closeCalls, calls, resps,
                    waits >>

\* a call on the sink
SinkOp(op, logs) == [op |-> op, logs |-> logs]

Return_closesFirst(w, d, res, exit, ops) ==
    /\ pc' = exit
    /\ result' = res
    /\ writer' = Close(w).w
    /\ sinkOps' = sinkOps \o << SinkOp("Close", <<>>) >> \o ops
    /\ dest' = d
    /\ closeCalls' = closeCalls + 1

\* Fetch returns res from position exit after the calls ops on the sink; the
\* deferred f.writer.Close() runs and what it returns is dropped
Return(w, d, res, exit, ops) ==
    /\ pc' = exit
    /\ result' = res
    /\ writer' = Close(w).w
    /\ sinkOps' = sinkOps \o ops \o << SinkOp("Close", <<>>) >>
    /\ dest' = d
    /\ closeCalls' = closeCalls + 1

\* os.Interrupt arrives and cancel() closes ctx.Done()
Cancel ==
    /\ pc \notin Returned \cup {"NEW", "NEW_FAILED"}
    /\ ~cancelled
    /\ cancelled' = TRUE
    /\ UNCHANGED << cfg, dest0, sinkOps, callErr, retryErr, shouldRetry, runs,
                    pc, cursor, totalLogs, pageCount, attempt, httpResp,
                    backoff, timerReady, writer, dest, errOut, result,
                    finalizeCalls, closeCalls, calls, resps, waits >>

\* the timer of time.After(backoff) fires
TimerFires ==
    /\ pc = "RETRY_WAIT"
    /\ ~timerReady
    /\ timerReady' = TRUE
    /\ UNCHANGED << cfg, dest0, sinkOps, callErr, retryErr, shouldRetry, runs,
                    pc, cursor, totalLogs, pageCount, attempt, httpResp,
                    backoff, cancelled, writer, dest, errOut, result,
                    finalizeCalls, closeCalls, calls, resps, waits >>

FetchStart_bannerToSink ==
    /\ pc = "START"
    /\ cursor' = cfg.Cursor
    /\ totalLogs' = 0
    /\ pageCount' = 0
    /\ dest' = Append(dest, Msg("start", "", 0, 0))
    /\ pc' = "LOOP_TOP"
    /\ UNCHANGED << cfg, dest0, sinkOps, callErr, retryErr, shouldRetry, runs,
                    attempt, httpResp, backoff, cancelled, timerReady, writer,
                    errOut, result, finalizeCalls, closeCalls, calls, resps, waits >>

\* Fetch up to the loop: the locals and the banner
FetchStart ==
    /\ pc = "START"
    /\ cursor' = cfg.Cursor
    /\ totalLogs' = 0
    /\ pageCount' = 0
    /\ errOut' = Append(errOut, Msg("start", "", 0, 0))
    /\ pc' = "LOOP_TOP"
    /\ UNCHANGED << cfg, dest0, sinkOps, callErr, retryErr, shouldRetry, runs,
                    attempt, httpResp, backoff, cancelled, timerReady,
                    writer, dest, result, finalizeCalls, closeCalls,
                    calls, resps, waits >>

CancelledBeforeCall_skipsFinalize ==
    /\ pc = "LOOP_TOP"
    /\ cancelled
    /\ errOut' = Append(errOut, Msg("cancelled", cursor, 0, 0))
    /\ Return(writer, dest, NilErr, "CANCELLED", <<>>)
    /\ UNCHANGED << cfg, dest0, callErr, retryErr, shouldRetry, runs,
                    cursor, totalLogs, pageCount, attempt, httpResp,
                    backoff, cancelled, timerReady, calls, resps, waits,
                    finalizeCalls >>

\* top of the loop, case <-ctx.Done()
CancelledBeforeCall ==
    /\ pc = "LOOP_TOP"
    /\ cancelled
    /\ \E io \in OutcomesOn(dest) :
         LET f == Finalize(writer, dest, io)
         IN  /\ errOut' = Append(errOut, Msg("cancelled", cursor, 0, 0))
             /\ finalizeCalls' = finalizeCalls + 1
             /\ Return(f.w, f.d, f.err, "CANCELLED", << SinkOp("Finalize", <<>>) >>)
    /\ UNCHANGED << cfg, dest0, callErr, retryErr, shouldRetry, runs,
                    cursor, totalLogs, pageCount, attempt, httpResp,
                    backoff, cancelled, timerReady, calls, resps, waits >>

IssueCall_keepsAttempt ==
    /\ pc = "LOOP_TOP"
    /\ ~cancelled
    /\ waits' = <<>>
    /\ calls' = Append(calls, [cursor |-> cursor, attempt |-> attempt,
                               cancelled |-> cancelled])
    /\ pc' = "FETCHING_PAGE"
    /\ UNCHANGED << cfg, dest0, sinkOps, callErr, retryErr, shouldRetry, runs,
                    cursor, totalLogs, pageCount, httpResp, backoff,
                    cancelled, timerReady, writer, dest, errOut, result,
                    finalizeCalls, closeCalls, resps, attempt >>

\* top of the loop, default: fetchPageWithRetry starts and issues fetchPage
IssueCall ==
    /\ pc = "LOOP_TOP"
    /\ ~cancelled
    /\ attempt' = 0
    /\ waits' = <<>>
    /\ calls' = Append(calls, [cursor |-> cursor, attempt |-> 0, cancelled |-> cancelled])
    /\ pc' = "FETCHING_PAGE"
    /\ UNCHANGED << cfg, dest0, sinkOps, callErr, retryErr, shouldRetry, runs,
                    cursor, totalLogs, pageCount, httpResp, backoff,
                    cancelled, timerReady, writer, dest, errOut, result,
                    finalizeCalls, closeCalls, resps >>

\* fetchPage returns an error and ShouldRetry grants a retry: notice, then
\* the select on ctx.Done() and time.After(backoff)
RetryGranted ==
    /\ pc = "FETCHING_PAGE"
    /\ \E r \in CallReturns(cursor, Served, Failed) :
         LET re == ClassifyError(r.err, r.httpResp)
             sr == ShouldRetry(attempt, re)
         IN  /\ ~re.isNil
             /\ sr.retry
             /\ httpResp' = r.httpResp
             /\ callErr' = r.err
             /\ retryErr' = re
             /\ shouldRetry' = sr.retry
             /\ resps' = Append(resps, [ok |-> FALSE, n |-> 0, after |-> ""])
             /\ attempt' = attempt + 1
             /\ errOut' = Append(errOut, Msg("retry", "", attempt + 1, sr.delay))
             /\ backoff' = sr.delay
             /\ waits' = Append(waits, [delay |-> sr.delay, min |-> re.RetryAfter,
                                     retryable |-> re.Retryable])
             /\ timerReady' = FALSE
             /\ pc' = "RETRY_WAIT"
    /\ UNCHANGED << cfg, dest0, sinkOps, runs, cursor, totalLogs, pageCount, cancelled, writer, dest,
                    result, finalizeCalls, closeCalls, calls >>

RetryDenied_finalizes ==
    /\ pc = "FETCHING_PAGE"
    /\ \E r \in CallReturns(cursor, Served, Failed) : \E io \in OutcomesOn(dest) :
         LET re == ClassifyError(r.err, r.httpResp)
             sr == ShouldRetry(attempt, re)
             f == Finalize(writer, dest, io)
         IN  /\ ~re.isNil
             /\ ~sr.retry
             /\ httpResp' = r.httpResp
             /\ callErr' = r.err
             /\ retryErr' = re
             /\ shouldRetry' = sr.retry
             /\ resps' = Append(resps, [ok |-> FALSE, n |-> 0, after |-> ""])
             /\ finalizeCalls' = finalizeCalls + 1
             /\ Return(f.w, f.d, FormatRetryError(r.err, r.httpResp), "FAILED",
                       << SinkOp("Finalize", <<>>) >>)
    /\ UNCHANGED << cfg, dest0, runs, cursor, totalLogs, pageCount, attempt, backoff,
                    cancelled, timerReady, errOut, calls, waits >>

\* fetchPage returns an error and ShouldRetry denies a retry: Fetch returns
\* FormatRetryError(err, httpResp)
RetryDenied ==
    /\ pc = "FETCHING_PAGE"
    /\ \E r \in CallReturns(cursor, Served, Failed) :
         LET re == ClassifyError(r.err, r.httpResp)
             sr == ShouldRetry(attempt, re)
         IN  /\ ~re.isNil
             /\ ~sr.retry
             /\ httpResp' = r.httpResp
             /\ callErr' = r.err
             /\ retryErr' = re
             /\ shouldRetry' = sr.retry
             /\ resps' = Append(resps, [ok |-> FALSE, n |-> 0, after |-> ""])
             /\ Return(writer, dest, FormatRetryError(r.err, r.httpResp), "FAILED", <<>>)
    /\ UNCHANGED << cfg, dest0, runs, cursor, totalLogs, pageCount, attempt, backoff,
                    cancelled, timerReady, errOut, finalizeCalls, calls, waits >>

\* the select, case <-ctx.Done(): fetchPageWithRetry returns ctx.Err() and
\* Fetch returns it
WaitCancelled ==
    /\ pc = "RETRY_WAIT"
    /\ "ctx.Done" \in SelectCases(cancelled, timerReady)
    /\ Return(writer, dest, CtxErr, "CANCELLED_IN_WAIT", <<>>)
    /\ UNCHANGED << cfg, dest0, callErr, retryErr, shouldRetry, runs,
                    cursor, totalLogs, pageCount, attempt, httpResp,
                    backoff, cancelled, timerReady, errOut, finalizeCalls,
                    calls, resps, waits >>

WaitElapsed_waitsAgain ==
    /\ pc = "RETRY_WAIT"
    /\ "time.After" \in SelectCases(cancelled, timerReady)
    /\ timerReady' = FALSE
    /\ UNCHANGED << cfg, dest0, sinkOps, callErr, retryErr, shouldRetry, runs, cursor,
                    totalLogs, pageCount, attempt, httpResp, backoff, cancelled,
                    writer, dest, errOut, result, finalizeCalls, closeCalls,
                    calls, resps, waits, pc >>


\* the select, case <-time.After(backoff): the loop issues fetchPage again
WaitElapsed ==
    /\ pc = "RETRY_WAIT"
    /\ "time.After" \in SelectCases(cancelled, timerReady)
    /\ calls' = Append(calls, [cursor |-> cursor, attempt |-> attempt,
                               cancelled |-> cancelled])
    /\ timerReady' = FALSE
    /\ pc' = "FETCHING_PAGE"
    /\ UNCHANGED << cfg, dest0, sinkOps, callErr, retryErr, shouldRetry, runs,
                    cursor, totalLogs, pageCount, attempt, httpResp,
                    backoff, cancelled, writer, dest, errOut, result,
                    finalizeCalls, closeCalls, resps, waits >>

PageWriteFails_countsPage ==
    /\ pc = "FETCHING_PAGE"
    /\ \E r \in CallReturns(cursor, Served, Failed) : \E failAt \in 1..MaxRecords :
         LET wp == WritePage(writer, dest, r.data, failAt)
         IN  /\ ClassifyError(r.err, r.httpResp).isNil
             /\ failAt <= Len(r.data)
             /\ ~wp.err.isNil
             /\ httpResp' = r.httpResp
             /\ callErr' = r.err
             /\ retryErr' = ClassifyError(r.err, r.httpResp)
             /\ shouldRetry' = FALSE
             /\ resps' = Append(resps, [ok |-> TRUE, n |-> Len(r.data), after |-> r.after])
             /\ Return(wp.w, wp.d, Err("failed to write page", wp.err.msg), "WRITE_FAILED",
                       << SinkOp("WritePage", r.data) >>)
             /\ pageCount' = pageCount + 1
             /\ totalLogs' = totalLogs + Len(r.data)
    /\ UNCHANGED << cfg, dest0, runs, cursor, attempt, backoff,
                    cancelled, timerReady, errOut, finalizeCalls, calls, waits >>


\* fetchPage succeeds but WritePage fails: "failed to write page"
PageWriteFails ==
    /\ pc = "FETCHING_PAGE"
    /\ \E r \in CallReturns(cursor, Served, Failed) : \E failAt \in 1..MaxRecords :
         LET wp == WritePage(writer, dest, r.data, failAt)
         IN  /\ ClassifyError(r.err, r.httpResp).isNil
             /\ failAt <= Len(r.data)
             /\ ~wp.err.isNil
             /\ httpResp' = r.httpResp
             /\ callErr' = r.err
             /\ retryErr' = ClassifyError(r.err, r.httpResp)
             /\ shouldRetry' = FALSE
             /\ resps' = Append(resps, [ok |-> TRUE, n |-> Len(r.data), after |-> r.after])
             /\ Return(wp.w, wp.d, Err("failed to write page", wp.err.msg), "WRITE_FAILED",
                       << SinkOp("WritePage", r.data) >>)
    /\ UNCHANGED << cfg, dest0, runs, cursor, totalLogs, pageCount, attempt, backoff,
                    cancelled, timerReady, errOut, finalizeCalls, calls, waits >>

PageWritten_keepsCursor ==
    /\ pc = "FETCHING_PAGE"
    /\ \E r \in CallReturns(cursor, Served, Failed) :
         LET wp == WritePage(writer, dest, r.data, 0)
             newCursor == NewCursor(r)
         IN  /\ ClassifyError(r.err, r.httpResp).isNil
             /\ wp.err.isNil
             /\ ~LastPage(newCursor, r.data)
             /\ httpResp' = r.httpResp
             /\ callErr' = r.err
             /\ retryErr' = ClassifyError(r.err, r.httpResp)
             /\ shouldRetry' = FALSE
             /\ resps' = Append(resps, [ok |-> TRUE, n |-> Len(r.data), after |-> r.after])
             /\ writer' = wp.w
             /\ dest' = wp.d
             /\ sinkOps' = Append(sinkOps, SinkOp("WritePage", r.data))
             /\ pageCount' = pageCount + 1
             /\ totalLogs' = totalLogs + Len(r.data)
             /\ errOut' = Append(errOut, Msg("progress", newCursor,
                                             totalLogs + Len(r.data), pageCount + 1))
             /\ pc' = "LOOP_TOP"
    /\ UNCHANGED << cfg, dest0, runs, attempt, backoff, cancelled, timerReady, result,
                    finalizeCalls, closeCalls, calls, waits, cursor >>

PageWritten_writesTwice ==
    /\ pc = "FETCHING_PAGE"
    /\ \E r \in CallReturns(cursor, Served, Failed) :
         LET wp == WritePage(writer, dest, r.data, 0)
             newCursor == NewCursor(r)
         IN  /\ ClassifyError(r.err, r.httpResp).isNil
             /\ wp.err.isNil
             /\ ~LastPage(newCursor, r.data)
             /\ httpResp' = r.httpResp
             /\ callErr' = r.err
             /\ retryErr' = ClassifyError(r.err, r.httpResp)
             /\ shouldRetry' = FALSE
             /\ resps' = Append(resps, [ok |-> TRUE, n |-> Len(r.data), after |-> r.after])
             /\ writer' = WritePage(wp.w, wp.d, r.data, 0).w
             /\ dest' = WritePage(wp.w, wp.d, r.data, 0).d
             /\ sinkOps' = sinkOps \o << SinkOp("WritePage", r.data),
                                        SinkOp("WritePage", r.data) >>
             /\ pageCount' = pageCount + 1
             /\ totalLogs' = totalLogs + Len(r.data)
             /\ errOut' = Append(errOut, Msg("progress", newCursor,
                                             totalLogs + Len(r.data), pageCount + 1))
             /\ cursor' = newCursor
             /\ pc' = "LOOP_TOP"
    /\ UNCHANGED << cfg, dest0, runs, attempt, backoff, cancelled, timerReady, result,
                    finalizeCalls, closeCalls, calls, waits >>

\* fetchPage succeeds, the page is written and it is not the last one
PageWritten ==
    /\ pc = "FETCHING_PAGE"
    /\ \E r \in CallReturns(cursor, Served, Failed) :
         LET wp == WritePage(writer, dest, r.data, 0)
             newCursor == NewCursor(r)
         IN  /\ ClassifyError(r.err, r.httpResp).isNil
             /\ wp.err.isNil
             /\ ~LastPage(newCursor, r.data)
             /\ httpResp' = r.httpResp
             /\ callErr' = r.err
             /\ retryErr' = ClassifyError(r.err, r.httpResp)
             /\ shouldRetry' = FALSE
             /\ resps' = Append(resps, [ok |-> TRUE, n |-> Len(r.data), after |-> r.after])
             /\ writer' = wp.w
             /\ dest' = wp.d
             /\ sinkOps' = Append(sinkOps, SinkOp("WritePage", r.data))
             /\ pageCount' = pageCount + 1
             /\ totalLogs' = totalLogs + Len(r.data)
             /\ errOut' = Append(errOut, Msg("progress", newCursor,
                                             totalLogs + Len(r.data), pageCount + 1))
             /\ cursor' = newCursor
             /\ pc' = "LOOP_TOP"
    /\ UNCHANGED << cfg, dest0, runs, attempt, backoff, cancelled, timerReady, result,
                    finalizeCalls, closeCalls, calls, waits >>

PageLast_skipsFinalize ==
    /\ pc = "FETCHING_PAGE"
    /\ \E r \in CallReturns(cursor, Served, Failed) :
         LET wp == WritePage(writer, dest, r.data, 0)
             newCursor == NewCursor(r)
         IN  /\ ClassifyError(r.err, r.httpResp).isNil
             /\ wp.err.isNil
             /\ LastPage(newCursor, r.data)
             /\ httpResp' = r.httpResp
             /\ callErr' = r.err
             /\ retryErr' = ClassifyError(r.err, r.httpResp)
             /\ shouldRetry' = FALSE
             /\ resps' = Append(resps, [ok |-> TRUE, n |-> Len(r.data), after |-> r.after])
             /\ pageCount' = pageCount + 1
             /\ totalLogs' = totalLogs + Len(r.data)
             /\ errOut' = errOut \o
                    << Msg("progress", newCursor, totalLogs + Len(r.data), pageCount + 1),
                       Msg("completed", "", totalLogs + Len(r.data), pageCount + 1) >>
             /\ Return(wp.w, wp.d, NilErr, "DONE", << SinkOp("WritePage", r.data) >>)
    /\ UNCHANGED << cfg, dest0, runs, cursor, attempt, backoff, cancelled, timerReady,
                    calls, waits, finalizeCalls >>

PageLast_emptyPageNotCounted ==
    /\ pc = "FETCHING_PAGE"
    /\ \E r \in CallReturns(cursor, Served, Failed) : \E io \in OutcomesOn(dest) :
         LET wp == WritePage(writer, dest, r.data, 0)
             newCursor == NewCursor(r)
             f == Finalize(wp.w, wp.d, io)
         IN  /\ ClassifyError(r.err, r.httpResp).isNil
             /\ wp.err.isNil
             /\ LastPage(newCursor, r.data)
             /\ httpResp' = r.httpResp
             /\ callErr' = r.err
             /\ retryErr' = ClassifyError(r.err, r.httpResp)
             /\ shouldRetry' = FALSE
             /\ resps' = Append(resps, [ok |-> TRUE, n |-> Len(r.data), after |-> r.after])
             /\ pageCount' = pageCount + (IF Len(r.data) = 0 THEN 0 ELSE 1)
             /\ totalLogs' = totalLogs + Len(r.data)
             /\ errOut' = errOut \o
                    << Msg("progress", newCursor, totalLogs + Len(r.data),
                           pageCount + (IF Len(r.data) = 0 THEN 0 ELSE 1)),
                       Msg("completed", "", totalLogs + Len(r.data),
                           pageCount + (IF Len(r.data) = 0 THEN 0 ELSE 1)) >>
             /\ finalizeCalls' = finalizeCalls + 1
             /\ Return(f.w, f.d, f.err, "DONE",
                       << SinkOp("WritePage", r.data), SinkOp("Finalize", <<>>) >>)
    /\ UNCHANGED << cfg, dest0, runs, cursor, attempt, backoff, cancelled, timerReady,
                    calls, waits >>


\* fetchPage succeeds, the page is written and it is the last one: break,
\* the summary, and Fetch returns Finalize()
PageLast ==
    /\ pc = "FETCHING_PAGE"
    /\ \E r \in CallReturns(cursor, Served, Failed) : \E io \in OutcomesOn(dest) :
         LET wp == WritePage(writer, dest, r.data, 0)
             newCursor == NewCursor(r)
             f == Finalize(wp.w, wp.d, io)
         IN  /\ ClassifyError(r.err, r.httpResp).isNil
             /\ wp.err.isNil
             /\ LastPage(newCursor, r.data)
             /\ httpResp' = r.httpResp
             /\ callErr' = r.err
             /\ retryErr' = ClassifyError(r.err, r.httpResp)
             /\ shouldRetry' = FALSE
             /\ resps' = Append(resps, [ok |-> TRUE, n |-> Len(r.data), after |-> r.after])
             /\ pageCount' = pageCount + 1
             /\ totalLogs' = totalLogs + Len(r.data)
             /\ errOut' = errOut \o
                    << Msg("progress", newCursor, totalLogs + Len(r.data), pageCount + 1),
                       Msg("completed", "", totalLogs + Len(r.data), pageCount + 1) >>
             /\ finalizeCalls' = finalizeCalls + 1
             /\ Return(f.w, f.d, f.err, "DONE",
                       << SinkOp("WritePage", r.data), SinkOp("Finalize", <<>>) >>)
    /\ UNCHANGED << cfg, dest0, runs, cursor, attempt, backoff, cancelled, timerReady,
                    calls, waits >>

Next ==
    \/ FetcherNew
    \/ Cancel
    \/ TimerFires
    \/ FetchStart
    \/ CancelledBeforeCall
    \/ IssueCall
    \/ RetryGranted
    \/ RetryDenied
    \/ WaitCancelled
    \/ WaitElapsed
    \/ PageWriteFails
    \/ PageWritten
    \/ PageLast

Spec == Init /\ [][Next]_vars

---------------------------------------------------------------------------
(* Progress: one invocation with the streaming sink, in which every step of *)
(* the program that can be taken is taken in the end: a remote call that    *)
(* was issued returns, a backoff timer that was started fires, a select     *)
(* with a ready case proceeds. The interrupt may come or not.               *)

TerminationInit == Init /\ cfg.Format = "ndjson" /\ cfg.Cursor = "" /\ ~cfg.Append

\* the steps of the program and of the remote
ProgramStep ==
    \/ FetcherNew
    \/ FetchStart
    \/ CancelledBeforeCall
    \/ IssueCall
    \/ RetryGranted
    \/ RetryDenied
    \/ WaitCancelled
    \/ WaitElapsed
    \/ PageWriteFails
    \/ PageWritten
    \/ PageLast

TerminationSpec ==
    /\ TerminationInit
    /\ [][Next]_vars
    /\ WF_vars(ProgramStep)
    /\ WF_vars(TimerFires)

---------------------------------------------------------------------------
(* Startup on a destination that cannot be written: the command validates   *)
(* the configuration, constructs the Fetcher and runs Fetch, the output     *)
(* path naming a file the process may not open for writing                  *)

StartupInit == \E c \in Configs : InitAt(c, NoAccess, "NEW")

\* the streaming sink is never constructed on such a file, so no page write
\* of it can fail
StartupNext ==
    \/ FetcherNew
    \/ Cancel
    \/ TimerFires
    \/ FetchStart
    \/ CancelledBeforeCall
    \/ IssueCall
    \/ RetryGranted
    \/ RetryDenied
    \/ WaitCancelled
    \/ WaitElapsed
    \/ PageWritten
    \/ PageLast

StartupSpec == StartupInit /\ [][StartupNext]_vars

---------------------------------------------------------------------------
(* Resumption: a run to a file with the streaming sink that was cancelled   *)
(* and reported a cursor is followed by a new invocation of the command     *)
(* with --cursor set to the reported value and --append, on the same file   *)
(* and against the same remote, whose history (calls, resps) goes on. The    *)
(* first run starts without a cursor; the second run is not resumed again.  *)

\* the cursor the cancelled run printed on the progress channel
ReportedCursor == errOut[Len(errOut)].cursor

Resume ==
    /\ pc = "CANCELLED"
    /\ result.isNil
    /\ errOut[Len(errOut)].kind = "cancelled"
    /\ cfg.Format = "ndjson"
    /\ cfg.OutputPath # ""
    /\ runs = <<>>
    /\ LET c == [cfg EXCEPT !.Cursor = ReportedCursor, !.Append = TRUE]
       IN  /\ Validate(c).isNil
           /\ cfg' = c
    /\ runs' = Append(runs, [cfg |-> cfg, dest0 |-> dest0, reported |-> ReportedCursor])
    /\ dest0' = dest
    /\ pc' = "NEW"
    /\ writer' = NilWriter
    /\ result' = NotReturned
    /\ cursor' = ""
    /\ totalLogs' = 0
    /\ pageCount' = 0
    /\ attempt' = 0
    /\ httpResp' = NilResp
    /\ backoff' = 0
    /\ cancelled' = FALSE
    /\ timerReady' = FALSE
    /\ errOut' = <<>>
    /\ finalizeCalls' = 0
    /\ closeCalls' = 0
    /\ waits' = <<>>
    /\ callErr' = NilErr
    /\ retryErr' = NilRetryable
    /\ shouldRetry' = FALSE
    /\ sinkOps' = <<>>
    /\ UNCHANGED << dest, calls, resps >>

ResumeInit == Init /\ cfg.Format = "ndjson" /\ cfg.Cursor = ""

ResumeNext ==
    \/ FetcherNew
    \/ Cancel
    \/ TimerFires
    \/ FetchStart
    \/ CancelledBeforeCall
    \/ IssueCall
    \/ RetryGranted
    \/ RetryDenied
    \/ WaitCancelled
    \/ WaitElapsed
    \/ PageWriteFails
    \/ PageWritten
    \/ PageLast
    \/ Resume

ResumeSpec == ResumeInit /\ [][ResumeNext]_vars

---------------------------------------------------------------------------
(* The retry policy of retry.go on its own: the functions applied to inputs *)
(* drawn from the sets below, the way fetchPageWithRetry and ClassifyError  *)
(* call them.                                                               *)

\* attempts go from 0 to MaxAttempt
MaxAttempt == 4

StatusCodes == {200, 302, 400, 401, 403, 404, 418, 429, 499, 500, 501, 502, 503, 504, 599}

\* Retry-After headers: absent, seconds, malformed, and HTTP dates in the
\* past, at the present instant and 30 seconds ahead
RetryAfterHeaders ==
    { <<>>, << "6", "0" >>, << "5" >>, << "0" >>, << "-", "5" >>,
      << "s", "o", "o", "n" >>, << "6", "0", "s" >> }
    \cup { d.text : d \in HTTPDates }

Responses == {NilResp} \cup { Resp(st, h) : st \in StatusCodes, h \in RetryAfterHeaders }
Errors == {NilErr, RemoteErr}
Classifications ==
    {NilRetryable} \cup
    { [isNil |-> FALSE, Retryable |-> b, RetryAfter |-> d] :
        b \in BOOLEAN, d \in {-5, 0, 1, 30, 60} }

RetryPositions == {"INPUT", "CLASSIFIED", "PARSED", "DECIDED", "BACKOFF", "FORMATTED"}

RetryInit ==
    /\ pc = "INPUT"
    /\ attempt \in 0..MaxAttempt
    /\ callErr \in Errors
    /\ httpResp \in Responses
    /\ retryErr \in Classifications
    /\ shouldRetry = FALSE
    /\ backoff = 0
    /\ result = NotReturned
    /\ cfg = [Format |-> "ndjson", Cursor |-> "", OutputPath |-> "", Append |-> FALSE]
    /\ writer = NilWriter
    /\ dest = <<>>
    /\ dest0 = <<>>
    /\ cursor = ""
    /\ totalLogs = 0
    /\ pageCount = 0
    /\ cancelled = FALSE
    /\ timerReady = FALSE
    /\ errOut = <<>>
    /\ finalizeCalls = 0
    /\ closeCalls = 0
    /\ calls = <<>>
    /\ resps = <<>>
    /\ waits = <<>>
    /\ runs = <<>>
    /\ sinkOps = <<>>

\* retryErr := ClassifyError(err, httpResp)
CallClassifyError ==
    /\ pc = "INPUT"
    /\ retryErr' = ClassifyError(callErr, httpResp)
    /\ pc' = "CLASSIFIED"
    /\ UNCHANGED << cfg, dest0, sinkOps, runs, cursor, totalLogs, pageCount, attempt, httpResp,
                    backoff, cancelled, timerReady, writer, dest, errOut, result,
                    finalizeCalls, closeCalls, calls, resps, waits, callErr,
                    shouldRetry >>

\* parseRetryAfter(httpResp)
CallParseRetryAfter ==
    /\ pc = "INPUT"
    /\ ~httpResp.isNil
    /\ backoff' = parseRetryAfter(httpResp)
    /\ pc' = "PARSED"
    /\ UNCHANGED << cfg, dest0, sinkOps, runs, cursor, totalLogs, pageCount, attempt, httpResp,
                    cancelled, timerReady, writer, dest, errOut, result,
                    finalizeCalls, closeCalls, calls, resps, waits, callErr,
                    retryErr, shouldRetry >>

\* shouldRetry, backoff := ShouldRetry(attempt, retryErr), on a
\* classification as given or as ClassifyError made it
CallShouldRetry ==
    /\ pc \in {"INPUT", "CLASSIFIED"}
    /\ shouldRetry' = ShouldRetry(attempt, retryErr).retry
    /\ backoff' = ShouldRetry(attempt, retryErr).delay
    /\ pc' = "DECIDED"
    /\ UNCHANGED << cfg, dest0, sinkOps, runs, cursor, totalLogs, pageCount, attempt, httpResp,
                    cancelled, timerReady, writer, dest, errOut, result,
                    finalizeCalls, closeCalls, calls, resps, waits, callErr,
                    retryErr >>

\* ExponentialBackoff(attempt)
CallExponentialBackoff ==
    /\ pc = "INPUT"
    /\ backoff' = ExponentialBackoff(attempt)
    /\ pc' = "BACKOFF"
    /\ UNCHANGED << cfg, dest0, sinkOps, runs, cursor, totalLogs, pageCount, attempt, httpResp,
                    cancelled, timerReady, writer, dest, errOut, result,
                    finalizeCalls, closeCalls, calls, resps, waits, callErr,
                    retryErr, shouldRetry >>

\* FormatRetryError(err, httpResp), called with the error of a failed attempt
CallFormatRetryError ==
    /\ pc = "INPUT"
    /\ ~callErr.isNil
    /\ result' = FormatRetryError(callErr, httpResp)
    /\ pc' = "FORMATTED"
    /\ UNCHANGED << cfg, dest0, sinkOps, runs, cursor, totalLogs, pageCount, attempt, httpResp,
                    backoff, cancelled, timerReady, writer, dest, errOut,
                    finalizeCalls, closeCalls, calls, resps, waits, callErr,
                    retryErr, shouldRetry >>

RetryNext ==
    \/ CallClassifyError
    \/ CallParseRetryAfter
    \/ CallShouldRetry
    \/ CallExponentialBackoff
    \/ CallFormatRetryError

RetrySpec == RetryInit /\ [][RetryNext]_vars

---------------------------------------------------------------------------
(* The command from the Config it builds to the Fetcher: cfg.Validate(),    *)
(* exit on its error, fetcher.New otherwise                                 *)

\* what flags and environment can put into a Config
AnyConfigs ==
    [Query : {"", "service:web"}, APIKey : {"", "api-key"}, AppKey : {"", "app-key"},
     PageSize : {-1, 0, 1, 5000, 5001}, From : {ZeroTime, 1, 2}, To : {ZeroTime, 1},
     Format : {"json", "ndjson", "xml"}, Cursor : InitialCursors,
     OutputPath : {"out.file"}, Append : BOOLEAN]

ConfigInit ==
    \E c \in AnyConfigs : \E d0 \in InitialContents(c) :
        InitAt(c, d0, "CONFIG")

\* if err := cfg.Validate(); err != nil { ...; os.Exit(1) }
CallValidate ==
    /\ pc = "CONFIG"
    /\ result' = Validate(cfg)
    /\ pc' = IF Validate(cfg).isNil THEN "NEW" ELSE "INVALID"
    /\ UNCHANGED << cfg, writer, dest, dest0, cursor, totalLogs, pageCount, attempt,
                    httpResp, backoff, cancelled, timerReady, errOut,
                    finalizeCalls, closeCalls, calls, resps, waits, callErr,
                    retryErr, shouldRetry, runs, sinkOps >>

ConfigNext ==
    \/ CallValidate
    \/ FetcherNew

ConfigSpec == ConfigInit /\ [][ConfigNext]_vars

---------------------------------------------------------------------------
(* internal/writer driven directly, as writer_test.go drives it: a sink is  *)
(* constructed on a destination, pages are written to it, it is finalized   *)
(* and closed in any order, and a second streaming sink may be opened on    *)
(* the file the first one has closed                                        *)

\* the most records in one page, the most calls on the sinks of one
\* destination, the most sinks opened one after the other on a destination
MaxPageLen == 3
MaxSinkOps == 4
MaxSinks == 2

\* what the constructors are called with; writer.New does not look at the
\* cursor and hands append to the streaming sink only
SinkConfigs ==
    { c \in { Config(f, "", p, a) :
                f \in {"json", "ndjson"}, p \in {"", "out.file"}, a \in BOOLEAN } :
        c.Append => (c.Format = "ndjson" /\ c.OutputPath # "") }

\* n records nobody passed before, the first of them being number first
PageLogs(first, n) == [i \in 1..n |-> Log("T", first + i - 1)]

\* the records of the WritePage calls in ops, in call order
RECURSIVE OpsLogs(_)
OpsLogs(ops) ==
    IF ops = <<>> THEN <<>>
    ELSE OpsLogs(SubSeq(ops, 1, Len(ops) - 1)) \o
         (IF ops[Len(ops)].op = "WritePage" THEN ops[Len(ops)].logs ELSE <<>>)

\* the records passed to the sinks on this destination so far
RECURSIVE RunsLogs(_)
RunsLogs(rs) ==
    IF rs = <<>> THEN <<>>
    ELSE RunsLogs(SubSeq(rs, 1, Len(rs) - 1)) \o OpsLogs(rs[Len(rs)].ops)

\* where encoding the records of a page fails: nowhere (0) or, the records
\* before it being written, at the last record; every write to a file that
\* was closed fails
FailPoints(w, logs) ==
    IF w.shouldClose /\ w.closed
    THEN (IF Len(logs) = 0 THEN {0} ELSE {1})
    ELSE {0, Len(logs)}

\* the calls made so far on the sinks of the destination
CallsMade ==
    LET RECURSIVE Count(_)
        Count(rs) == IF rs = <<>> THEN 0
                     ELSE Count(SubSeq(rs, 1, Len(rs) - 1)) + Len(rs[Len(rs)].ops)
    IN  Count(runs) + Len(sinkOps)

\* the state of the Fetcher, which this section leaves alone
FetcherVars ==
    << cursor, totalLogs, pageCount, attempt, httpResp, backoff, cancelled,
       timerReady, errOut, calls, resps, waits, callErr, retryErr, shouldRetry >>

WriterInit ==
    \E c \in SinkConfigs : \E d0 \in InitialContents(c) : InitAt(c, d0, "NEW")

\* writer.New(format, path, append)
CallNew ==
    /\ pc = "NEW"
    /\ \E io \in {"ok", "open fails"} :
         LET n == New(cfg.Format, cfg.OutputPath, cfg.Append, dest, io)
         IN  /\ writer' = n.w
             /\ dest' = n.d
             /\ result' = n.err
             /\ pc' = IF n.err.isNil THEN "SINK" ELSE "NEW_FAILED"
    /\ UNCHANGED << cfg, dest0, sinkOps, runs, finalizeCalls, closeCalls >>
    /\ UNCHANGED FetcherVars

\* w.WritePage(logs)
CallWritePage ==
    /\ pc = "SINK"
    /\ CallsMade < MaxSinkOps
    /\ \E n \in 0..MaxPageLen :
         LET logs == PageLogs(Len(RunsLogs(runs)) + Len(OpsLogs(sinkOps)) + 1, n)
         IN  \E failAt \in FailPoints(writer, logs) :
               LET wp == WritePage(writer, dest, logs, failAt)
               IN  /\ writer' = wp.w
                   /\ dest' = wp.d
                   /\ result' = wp.err
                   /\ sinkOps' = Append(sinkOps,
                                    [op |-> "WritePage", logs |-> logs,
                                     err |-> wp.err])
    /\ UNCHANGED << cfg, dest0, pc, runs, finalizeCalls, closeCalls >>
    /\ UNCHANGED FetcherVars

\* w.Finalize()
CallFinalize ==
    /\ pc = "SINK"
    /\ CallsMade < MaxSinkOps
    /\ \E io \in IOOutcomes :
         LET f == Finalize(writer, dest, io)
         IN  /\ writer' = f.w
             /\ dest' = f.d
             /\ result' = f.err
             /\ sinkOps' = Append(sinkOps,
                              [op |-> "Finalize", logs |-> <<>>, err |-> f.err])
    /\ finalizeCalls' = finalizeCalls + 1
    /\ UNCHANGED << cfg, dest0, pc, runs, closeCalls >>
    /\ UNCHANGED FetcherVars

\* w.Close()
CallClose ==
    /\ pc = "SINK"
    /\ CallsMade < MaxSinkOps
    /\ LET c == Close(writer)
       IN  /\ writer' = c.w
           /\ result' = c.err
           /\ sinkOps' = Append(sinkOps,
                            [op |-> "Close", logs |-> <<>>, err |-> c.err])
    /\ closeCalls' = closeCalls + 1
    /\ UNCHANGED << cfg, dest, dest0, pc, runs, finalizeCalls >>
    /\ UNCHANGED FetcherVars

\* NewNDJSONWriter(path, append) on the file a streaming sink has written
\* and closed
CallNewAgain ==
    /\ pc = "SINK"
    /\ Len(runs) + 1 < MaxSinks
    /\ writer.format = "ndjson"
    /\ writer.shouldClose /\ writer.closed
    /\ \E a \in BOOLEAN : \E io \in {"ok", "open fails"} :
         LET n == NewNDJSONWriter(cfg.OutputPath, a, dest, io)
         IN  /\ cfg' = [cfg EXCEPT !.Append = a]
             /\ writer' = n.w
             /\ dest' = n.d
             /\ result' = n.err
             /\ pc' = IF n.err.isNil THEN "SINK" ELSE "NEW_FAILED"
    /\ runs' = Append(runs, [append |-> cfg.Append, dest0 |-> dest0, ops |-> sinkOps])
    /\ dest0' = dest
    /\ sinkOps' = <<>>
    /\ UNCHANGED << finalizeCalls, closeCalls >>
    /\ UNCHANGED FetcherVars

WriterNext ==
    \/ CallNew
    \/ CallWritePage
    \/ CallFinalize
    \/ CallClose
    \/ CallNewAgain

WriterSpec == WriterInit /\ [][WriterNext]_vars

---------------------------------------------------------------------------
(* Properties *)

Last(sq) == sq[Len(sq)]

\* the records of the pages the first k remote calls returned
RECURSIVE PagesLogs(_)
PagesLogs(k) ==
    IF k = 0 THEN <<>>
    ELSE PagesLogs(k - 1) \o
         (IF resps[k].ok THEN [j \in 1..resps[k].n |-> Log(calls[k].cursor, j)]
                         ELSE <<>>)

\* the records the sink holds from this run: the buffer of the json sink,
\* the lines the ndjson sink added to its destination
KeptLines == IF cfg.Append THEN dest0 ELSE <<>>
SinkLogs ==
    IF writer.format = "json" THEN writer.logs
    ELSE [i \in 1..(Len(dest) - Len(KeptLines)) |-> dest[i + Len(KeptLines)][2]]

\* a response ClassifyError calls retryable
RetryableResp(h) == h.isNil \/ h.StatusCode = 429 \/ h.StatusCode >= 500

\* the remote of TestMultiplePages: 2 records and cursor C2, then 1 record
TwoPageScript ==
    << [ok |-> TRUE, n |-> 2, after |-> "C2"], [ok |-> TRUE, n |-> 1, after |-> ""] >>

\* C1: the first remote call carries the configured cursor, a retry carries
\* the cursor of the failed attempt, and the first call of a later page
\* carries the continuation cursor of the page before it. When the remote
\* returned 2 records with cursor C2 and then 1 record without a cursor (and
\* the sink took both pages), the run made exactly 2 calls, the second with
\* C2, handed 3 records to the sink and ended in DONE.
C1_CursorThreading ==
    /\ \A i \in 1..Len(calls) :
         calls[i].cursor = IF i = 1 THEN cfg.Cursor
                           ELSE IF resps[i - 1].ok THEN resps[i - 1].after
                           ELSE calls[i - 1].cursor
    /\ (resps = TwoPageScript /\ pc \in Returned \ {"WRITE_FAILED"}) =>
         /\ pc = "DONE"
         /\ Len(calls) = 2
         /\ calls[2].cursor = "C2"
         /\ totalLogs = 3
         /\ Len(SinkLogs) = 3

C1_Witness == pc = "DONE" /\ resps = TwoPageScript /\ Len(calls) = 2

\* C2: a step that fetches and writes a page ends the run in DONE (one
\* finalize, the completion summary, no further call) exactly when the
\* page's continuation cursor is empty or the page has no records; otherwise
\* Fetch is back at the top of the loop with the new cursor, where its next
\* step, unless cancellation is observed there, is the next remote call. An
\* empty first page without a cursor ends the run after one call, 0 records.
C2_TerminationRule ==
    /\ [][ /\ (pc = "FETCHING_PAGE" /\ pc' \in {"LOOP_TOP", "DONE"}) =>
                LET page == Last(resps')
                IN  /\ page.ok
                    /\ (pc' = "DONE") <=> (page.after = "" \/ page.n = 0)
                    /\ pc' = "DONE" =>
                         /\ finalizeCalls' = finalizeCalls + 1
                         /\ Last(errOut').kind = "completed"
                         /\ calls' = calls
                    /\ pc' = "LOOP_TOP" =>
                         /\ cursor' = page.after
                         /\ finalizeCalls' = finalizeCalls
           /\ (pc = "LOOP_TOP" /\ ~cancelled /\ pc' # pc) =>
                /\ pc' = "FETCHING_PAGE"
                /\ calls' = Append(calls, [cursor |-> cursor, attempt |-> 0,
                                           cancelled |-> FALSE])
           /\ pc = "DONE" => calls' = calls
         ]_vars
    /\ [](( /\ pc \in Returned
            /\ resps = << [ok |-> TRUE, n |-> 0, after |-> ""] >> ) =>
            (pc = "DONE" /\ Len(calls) = 1 /\ totalLogs = 0 /\ SinkLogs = <<>>))

C2_Witness ==
    pc = "DONE" /\ Last(resps).ok /\ Last(resps).n = 0 /\ Last(resps).after # ""

\* C3: a page gets at most 3 retries: no call is a 5th attempt; a run that
\* fails on a retryable error has made exactly 4 calls for that cursor, all
\* failed, with waits of 1s, 2s, 4s when no attempt carried a server minimum
\* delay; and after 4 failed attempts the run is in FAILED.
C3_RetryCeiling ==
    /\ \A i \in 1..Len(calls) : calls[i].attempt <= 3
    /\ Len(waits) <= 3
    /\ (pc = "FAILED" /\ RetryableResp(httpResp)) =>
         /\ Len(waits) = 3
         /\ Len(calls) >= 4
         /\ \A k \in 0..3 :
              /\ calls[Len(calls) - k].attempt = 3 - k
              /\ calls[Len(calls) - k].cursor = cursor
              /\ ~resps[Len(resps) - k].ok
         /\ (\A k \in 1..3 : waits[k].min = 0) =>
              [k \in 1..3 |-> waits[k].delay] = << 1, 2, 4 >>
    /\ (Len(resps) >= 4 /\ \A k \in 0..3 : ~resps[Len(resps) - k].ok) =>
         pc = "FAILED"

C3_Witness ==
    /\ pc = "FAILED"
    /\ Len(calls) = 4
    /\ [k \in 1..Len(waits) |-> waits[k].delay] = << 1, 2, 4 >>

\* C4: the first remote call of every page is issued with the attempt
\* counter at 0, whatever the pages before it consumed.
C4_AttemptPerPage ==
    \A i \in 1..Len(calls) :
        (i = 1 \/ resps[i - 1].ok) => calls[i].attempt = 0

C4_Witness ==
    \E i \in 2..Len(calls) :
        /\ resps[i - 1].ok
        /\ calls[i].attempt = 0
        /\ \E j \in 1..(i - 1) : calls[j].attempt = 3

\* C5: cancellation seen by the check at the top of the loop: no remote call
\* is issued in that iteration, the sink is finalized, the current cursor is
\* reported and Fetch returns the non-error cancelled outcome (what
\* finalize() returned: nil unless the buffering sink's finalize itself
\* failed on I/O). Before the first call this means zero remote calls and
\* the configured cursor.
C5_CancelledBeforeCall ==
    /\ \A i \in 1..Len(calls) :
         (i = 1 \/ resps[i - 1].ok) => ~calls[i].cancelled
    /\ pc = "CANCELLED" =>
         /\ cancelled
         /\ Len(calls) = Len(resps)
         /\ finalizeCalls = 1
         /\ Last(errOut) = Msg("cancelled", cursor, 0, 0)
         /\ cursor = IF resps = <<>> THEN cfg.Cursor ELSE Last(resps).after
         /\ result.isNil \/ (writer.format = "json" /\ result = IOErr)
         /\ writer.format = "ndjson" => result.isNil

C5_Witness ==
    pc = "CANCELLED" /\ calls = <<>> /\ cursor = cfg.Cursor /\ result.isNil

\* C6: a run ended by cancellation during a backoff wait has finalized the
\* sink, returned the non-error cancelled outcome and reported the current
\* cursor, like a run cancelled before a call.
C6_CancelledDuringWait ==
    pc = "CANCELLED_IN_WAIT" =>
        /\ finalizeCalls = 1
        /\ result.isNil
        /\ Last(errOut) = Msg("cancelled", cursor, 0, 0)

\* C7: no remote call, first attempt or retry, is issued while cancellation
\* has already been signalled.
C7_NoCallWhenCancelled ==
    \A i \in 1..Len(calls) : ~calls[i].cancelled

\* C8: once cancellation is ready, the retry wait never resolves in favour
\* of the timer, also when the timer is ready too.
C8_CancellationWins ==
    [][(pc = "RETRY_WAIT" /\ cancelled) => pc' # "FETCHING_PAGE"]_vars

\* C9 as claimed: every terminated run has called finalize() exactly once.
C9_FinalizeExactlyOnce ==
    pc \in Returned => finalizeCalls = 1

\* C9 as amended: finalize() is called only as Fetch returns and at most
\* once: exactly once when the run ends in DONE or is cancelled at the check
\* before a call, not at all when it ends with a fatal fetch error or a sink
\* write error.
C9_FinalizeAtMostOnce ==
    /\ finalizeCalls <= 1
    /\ pc \notin Returned => finalizeCalls = 0
    /\ pc \in {"DONE", "CANCELLED"} => finalizeCalls = 1
    /\ pc \in {"FAILED", "WRITE_FAILED"} => finalizeCalls = 0

C9_Witness ==
    pc = "CANCELLED" /\ pageCount >= 1 /\ finalizeCalls = 1

\* C10: when a page's failure is denied a retry, Fetch returns the formatted
\* error, finalize() was not called, and the sink holds what the earlier
\* pages left in it: the ndjson destination their lines after what it kept,
\* the json sink their records in memory with its destination untouched.
C10_FailedLeavesSink ==
    pc = "FAILED" =>
        /\ finalizeCalls = 0
        /\ ~result.isNil
        /\ result.msg \in {"network error", "authentication failed", "permission denied",
                           "rate limit exceeded", "API error (status %d)"}
        /\ SinkLogs = PagesLogs(Len(resps))
        /\ Len(SinkLogs) = totalLogs
        /\ writer.format = "json" => dest = dest0
        /\ writer.format = "ndjson" =>
             dest = KeptLines \o [i \in 1..totalLogs |-> EncodeLine(SinkLogs[i])]

C10_Witness ==
    /\ pc = "FAILED"
    /\ writer.format = "ndjson"
    /\ pageCount >= 1
    /\ totalLogs >= 1
    /\ calls[Len(calls)].attempt = 0

\* the lines the streaming sink writes for a list of records
Lines(logs) == [i \in 1..Len(logs) |-> EncodeLine(logs[i])]

IsPrefix(a, b) == Len(a) <= Len(b) /\ SubSeq(b, 1, Len(a)) = a

\* C12: with the streaming sink the destination holds, whenever Fetch is at
\* the top of the loop, has a remote call in flight, waits for a retry or has
\* ended in a fatal fetch error, the records of all pages fetched so far,
\* complete and in fetch order, after what the file kept; so page k is
\* written before the call for page k+1 is issued. No step of the run removes
\* anything from the destination.
C12_StreamedPagesKept ==
    /\ []( ( /\ writer.format = "ndjson"
             /\ pc \in {"START", "LOOP_TOP", "FETCHING_PAGE", "RETRY_WAIT", "FAILED"} ) =>
           dest = KeptLines \o Lines(PagesLogs(Len(resps))) )
    /\ [][ writer.format = "ndjson" => IsPrefix(dest, dest') ]_vars

C12_Witness ==
    /\ pc = "FAILED"
    /\ writer.format = "ndjson"
    /\ Len(waits) = 3
    /\ pageCount = 1
    /\ Len(dest) = Len(KeptLines) + MaxRecords

\* C13: the retryable verdict of ClassifyError for every (error, response):
\* no error, no classification; an error without a response is retryable;
\* 429, 500, 502, 503, 504 and every other status from 500 up are retryable;
\* 400, 401, 403, 404 and every other status below 500 are not.
C13_ClassifyVerdict ==
    pc = "CLASSIFIED" =>
        /\ callErr.isNil => retryErr.isNil
        /\ ~callErr.isNil =>
             /\ ~retryErr.isNil
             /\ httpResp.isNil => retryErr.Retryable
             /\ ~httpResp.isNil =>
                  LET st == httpResp.StatusCode
                  IN  /\ st \in {429, 500, 502, 503, 504} => retryErr.Retryable
                      /\ st \in {400, 401, 403, 404} => ~retryErr.Retryable
                      /\ st \notin {429, 500, 502, 503, 504, 400, 401, 403, 404} =>
                           (retryErr.Retryable <=> st >= 500)

C13_Witness ==
    /\ pc = "CLASSIFIED"
    /\ ~callErr.isNil
    /\ ~httpResp.isNil
    /\ httpResp.StatusCode = 599
    /\ retryErr.Retryable

\* a Retry-After header that is present and is neither seconds nor a date
Unparseable(h) == h # <<>> /\ ~Atoi(h).ok /\ ~ParseTime(h).ok

\* the classification in retryErr is the one of the failed call in hand
ClassifiedHere == ~callErr.isNil /\ retryErr = ClassifyError(callErr, httpResp)

\* C14 as claimed: for a 429, "Retry-After: 60" gives a delay of 60 s, no
\* header gives the 60 s fallback, and an unparseable header gives no delay,
\* so that the retry waits the exponential backoff of the attempt.
C14_UnparseableGivesNoDelay ==
    (/\ pc \in {"CLASSIFIED", "DECIDED"}
     /\ ClassifiedHere
     /\ ~httpResp.isNil
     /\ httpResp.StatusCode = 429) =>
        /\ httpResp.RetryAfter = << "6", "0" >> => retryErr.RetryAfter = 60
        /\ httpResp.RetryAfter = <<>> => retryErr.RetryAfter = 60
        /\ Unparseable(httpResp.RetryAfter) =>
             /\ retryErr.RetryAfter = 0
             /\ (pc = "DECIDED" /\ shouldRetry) => backoff = 2 ^ attempt

\* C14 as amended: for a 429, "Retry-After: 60" gives a delay of 60 s; no
\* header and an unparseable header both give the 60 s fallback, which the
\* retry then waits instead of the exponential backoff. Only parseRetryAfter
\* by itself reports an unparseable header as no delay (0).
C14_RateLimitDelay ==
    /\ (/\ pc \in {"CLASSIFIED", "DECIDED"}
        /\ ClassifiedHere
        /\ ~httpResp.isNil
        /\ httpResp.StatusCode = 429) =>
           /\ httpResp.RetryAfter = << "6", "0" >> => retryErr.RetryAfter = 60
           /\ httpResp.RetryAfter = <<>> => retryErr.RetryAfter = 60
           /\ Unparseable(httpResp.RetryAfter) =>
                /\ retryErr.RetryAfter = 60
                /\ (pc = "DECIDED" /\ shouldRetry) => backoff = 60
    /\ (pc = "PARSED" /\ Unparseable(httpResp.RetryAfter)) => backoff = 0
    /\ (pc = "PARSED" /\ httpResp.RetryAfter = << "6", "0" >>) => backoff = 60

C14_Witness ==
    /\ pc = "DECIDED"
    /\ ClassifiedHere
    /\ ~httpResp.isNil
    /\ httpResp.StatusCode = 429
    /\ Unparseable(httpResp.RetryAfter)
    /\ attempt = 1
    /\ shouldRetry
    /\ backoff = 60

\* C15: ShouldRetry grants a retry exactly when the classification is
\* present, is retryable and attempt < 3; at attempt 3 it denies every
\* retryable classification whatever its minimum delay.
C15_RetryGrantedIff ==
    pc = "DECIDED" =>
        /\ shouldRetry <=> (~retryErr.isNil /\ retryErr.Retryable /\ attempt < 3)
        /\ attempt = 3 => ~shouldRetry

C15_Witness ==
    /\ pc = "DECIDED"
    /\ attempt = 3
    /\ ~retryErr.isNil
    /\ retryErr.Retryable
    /\ retryErr.RetryAfter = 60
    /\ ~shouldRetry

\* C16: when ShouldRetry grants a retry, its delay is the classification's
\* minimum delay if that is greater than zero and otherwise 1 s x 2^attempt;
\* the minimum delay replaces the exponential value, also when it is shorter.
C16_RetryDelay ==
    (pc = "DECIDED" /\ shouldRetry) =>
        backoff = IF retryErr.RetryAfter > 0 THEN retryErr.RetryAfter
                  ELSE 2 ^ attempt

C16_Witness ==
    /\ pc = "DECIDED"
    /\ shouldRetry
    /\ retryErr.RetryAfter = 1
    /\ attempt = 2
    /\ backoff = 1

\* C17: ExponentialBackoff gives exactly 1 s, 2 s, 4 s, 8 s for attempts 0,
\* 1, 2, 3: a function of the attempt alone that doubles with every attempt.
C17_BackoffDoubles ==
    pc = "BACKOFF" =>
        /\ attempt <= 3 => backoff = << 1, 2, 4, 8 >>[attempt + 1]
        /\ backoff = 2 ^ attempt

C17_Witness == pc = "BACKOFF" /\ attempt = 3 /\ backoff = 8

\* the retry notices at the end of the progress channel: those of the page
\* being fetched
PageRetryNotices ==
    Cardinality({ i \in 1..Len(errOut) :
                    \A j \in i..Len(errOut) : errOut[j].kind = "retry" })

\* C18 as claimed: when a page fails with a response classified as not
\* retryable, exactly one remote call was made for that page, with no retry
\* notice and no backoff wait, and Fetch returned an error.
C18_NonRetryableOneCall ==
    (pc = "FAILED" /\ ~RetryableResp(httpResp)) =>
        /\ Last(calls).attempt = 0
        /\ PageRetryNotices = 0
        /\ waits = <<>>
        /\ ~result.isNil

\* C18 as amended: a failure classified as not retryable is fatal where it
\* occurs: Fetch returns an error, and no remote call, retry notice or
\* backoff wait follows the failed call. The page has exactly one remote
\* call, no notice and no wait when the failure answers the page's first
\* attempt; when it answers a retry, the page has the calls, notices and
\* waits of the retryable failures before it, one of each per failure.
C18_NonRetryableFatal ==
    (pc = "FAILED" /\ ~RetryableResp(httpResp)) =>
        /\ ~result.isNil
        /\ ~shouldRetry
        /\ Len(calls) = Len(resps)
        /\ ~Last(resps).ok
        /\ Last(calls).attempt = attempt
        /\ PageRetryNotices = attempt
        /\ Len(waits) = attempt
        /\ \A k \in 1..Len(waits) : waits[k].retryable
        /\ \A k \in 1..attempt :
             /\ ~resps[Len(resps) - k].ok
             /\ calls[Len(calls) - k].attempt = attempt - k
        /\ attempt = 0 =>
             /\ waits = <<>>
             /\ PageRetryNotices = 0
             /\ (Len(calls) = 1 \/ resps[Len(resps) - 1].ok)

C18_Witness ==
    /\ pc = "FAILED"
    /\ ~httpResp.isNil
    /\ httpResp.StatusCode = 404
    /\ attempt = 2
    /\ Len(waits) = 2
    /\ pageCount = 1

\* C19: the error Fetch returns for a failed page is chosen by the response
\* of the last attempt: "network error" wrapping the original error when
\* there is none, "authentication failed" for 401, "permission denied" for
\* 403, "rate limit exceeded" wrapping the original error for 429, and "API
\* error (status N)" wrapping it for every other status. A failure that
\* used up its retries always wraps the original error.
C19_FatalErrorSelected ==
    pc = "FAILED" =>
        /\ ~result.isNil
        /\ ~callErr.isNil
        /\ httpResp.isNil =>
             (result.msg = "network error" /\ result.wraps = callErr.msg)
        /\ ~httpResp.isNil =>
             LET st == httpResp.StatusCode
             IN  /\ st = 401 => (result.msg = "authentication failed" /\ result.wraps = "")
                 /\ st = 403 => (result.msg = "permission denied" /\ result.wraps = "")
                 /\ st = 429 => (result.msg = "rate limit exceeded"
                                 /\ result.wraps = callErr.msg)
                 /\ st \notin {401, 403, 429} =>
                      /\ result.msg = "API error (status %d)"
                      /\ result.status = st
                      /\ result.wraps = callErr.msg
        /\ (attempt = 3 /\ RetryableResp(httpResp)) =>
             (result.wraps = callErr.msg /\ result.wraps # "")

C19_Witness ==
    /\ pc = "FAILED"
    /\ Len(waits) = 3
    /\ waits[3].min = 0
    /\ ~httpResp.isNil
    /\ httpResp.StatusCode = 429
    /\ result.msg = "rate limit exceeded"
    /\ result.wraps = "remote error"

\* C20: a format other than "json" and "ndjson" makes writer.New, and with
\* it fetcher.New, fail: there is no sink, New returned an error and no
\* remote call is ever issued. "json" gives the buffering sink and "ndjson"
\* the streaming sink.
C20_FormatSelectsSink ==
    /\ (cfg.Format \notin {"json", "ndjson"} /\ pc # "NEW") =>
         /\ pc = "NEW_FAILED"
         /\ writer = NilWriter
         /\ ~result.isNil
         /\ result.msg = "failed to create writer"
         /\ result.wraps = "unsupported format"
         /\ calls = <<>>
         /\ dest = dest0
    /\ (cfg.Format = "json" /\ pc # "NEW") =>
         (writer.format = "json" /\ pc # "NEW_FAILED")
    /\ (cfg.Format = "ndjson" /\ pc # "NEW") =>
         (writer.format = "ndjson" /\ pc # "NEW_FAILED")

C20_Witness == pc = "NEW_FAILED" /\ cfg.Format = "xml" /\ calls = <<>>

\* what the file kept of its content when the first run opened it
FirstKept == IF runs[1].cfg.Append THEN runs[1].dest0 ELSE <<>>

\* C11: a run to a file with the streaming sink was cancelled and reported
\* cursor c; a second run with initial cursor c and the append flag ended in
\* DONE. The remote answers a cursor with one page only, so an uninterrupted
\* run from the first run's initial cursor receives the pages the two runs
\* received: the calls of both runs form one chain of cursors from that
\* initial cursor, no page before the last ends the chain, and the last one
\* does. The file then holds, after what the first run kept of it, the
\* records of those pages, each once and in fetch order.
C11_ResumeEquivalence ==
    (pc = "DONE" /\ runs # <<>>) =>
        /\ cfg.Append
        /\ cfg.Cursor = runs[1].reported
        /\ \A i \in 1..Len(calls) :
             calls[i].cursor = IF i = 1 THEN runs[1].cfg.Cursor
                               ELSE IF resps[i - 1].ok THEN resps[i - 1].after
                               ELSE calls[i - 1].cursor
        /\ \A i \in 1..(Len(resps) - 1) :
             resps[i].ok => (resps[i].after # "" /\ resps[i].n > 0)
        /\ Last(resps).ok
        /\ (Last(resps).after = "" \/ Last(resps).n = 0)
        /\ dest = FirstKept \o Lines(PagesLogs(Len(resps)))
        /\ \A i, j \in 1..Len(dest) : dest[i] = dest[j] => i = j

C11_Witness ==
    /\ pc = "DONE"
    /\ runs # <<>>
    /\ runs[1].reported = "C2"
    /\ pageCount = 1
    /\ Served = 2
    /\ Len(dest) = Len(FirstKept) + 2 * MaxRecords

\* the pages the sink was handed, in the order of the calls
WrittenPages ==
    LET ops == SelectSeq(sinkOps, LAMBDA o : o.op = "WritePage")
    IN  [i \in 1..Len(ops) |-> ops[i].logs]

\* the pages the first k remote calls returned, in the order fetched
RECURSIVE OkPages(_)
OkPages(k) ==
    IF k = 0 THEN <<>>
    ELSE IF resps[k].ok
         THEN Append(OkPages(k - 1),
                     [j \in 1..resps[k].n |-> Log(calls[k].cursor, j)])
         ELSE OkPages(k - 1)

\* C26: the buffering sink writes nothing to the destination before
\* finalize(): as long as finalize() was not called the destination is what
\* it was before the run, and a run that ended without finalize() (fatal
\* fetch error, sink write error, cancellation during a backoff wait) leaves
\* it so, the records accumulated in memory never reaching it.
C26_BufferedUntilFinalize ==
    writer.format = "json" =>
        /\ finalizeCalls = 0 => dest = dest0
        /\ pc \in {"FAILED", "WRITE_FAILED", "CANCELLED_IN_WAIT"} =>
             /\ finalizeCalls = 0
             /\ dest = dest0
             /\ writer.logs = PagesLogs(Len(resps))

C26_Witness ==
    /\ writer.format = "json"
    /\ pc = "CANCELLED_IN_WAIT"
    /\ Len(writer.logs) = MaxRecords
    /\ dest = dest0

\* the number of messages of a kind on the progress channel
Messages(kind) == Cardinality({ i \in 1..Len(errOut) : errOut[i].kind = kind })

\* C27: the messages of a run (banner, progress, retry notice, cancellation,
\* completion) are all on the progress channel and none is in the data
\* sink: the sink was handed the records of the fetched pages and nothing
\* else, and its destination holds only what it kept, the lines of those
\* records (streaming sink) or the one document of them (buffering sink).
C27_ChannelSeparation ==
    pc \notin {"NEW", "NEW_FAILED", "START"} =>
        /\ Messages("start") = 1
        /\ Messages("progress") = pageCount
        /\ Messages("retry") = Failed - (IF pc = "FAILED" THEN 1 ELSE 0)
        /\ Messages("cancelled") = (IF pc = "CANCELLED" THEN 1 ELSE 0)
        /\ Messages("completed") = (IF pc = "DONE" THEN 1 ELSE 0)
        /\ \A i \in 1..Len(sinkOps) :
             sinkOps[i].op \in {"WritePage", "Finalize", "Close"}
        /\ \A p \in 1..Len(WrittenPages) :
             \A j \in 1..Len(WrittenPages[p]) :
                 \E k \in 1..Len(resps) :
                     resps[k].ok /\ j <= resps[k].n
                     /\ WrittenPages[p][j] = Log(calls[k].cursor, j)
        /\ writer.format = "ndjson" =>
             \E m \in 0..Len(SinkLogs) :
                 dest = KeptLines \o Lines(SubSeq(PagesLogs(Len(resps)), 1, m))
        /\ writer.format = "json" =>
             dest \in {dest0, <<>>, << EncodeDocument(writer.logs, writer.pageCount) >>}

C27_Witness ==
    /\ pc = "DONE"
    /\ writer.format = "ndjson"
    /\ Messages("retry") = 1
    /\ Messages("progress") = 2
    /\ Len(dest) = Len(KeptLines) + 2

\* C30: the sink is handed exactly the pages of the successful remote calls,
\* each once and in the order fetched: a failed attempt hands it nothing, and
\* a page that succeeds after retries is handed over once.
C30_PageWrittenOnce ==
    WrittenPages = OkPages(Len(resps))

C30_Witness ==
    /\ Len(resps) = 3
    /\ ~resps[1].ok
    /\ ~resps[2].ok
    /\ resps[3].ok
    /\ resps[3].n = MaxRecords
    /\ Len(WrittenPages) = 1
    /\ pc = "LOOP_TOP"

\* C28: no remote call that was issued is interrupted by cancellation: what
\* a call returns is what the remote decided, never the giving up of its
\* request because cancellation arrived while it was in flight.
C28_CallRunsToCompletion ==
    callErr # AbortedErr

\* C21: an unwritable destination is a failure of sink construction for
\* both sinks: fetcher.New fails at startup and no remote call is issued.
C21_UnwritableFatalAtStartup ==
    (dest0 = NoAccess /\ pc # "NEW") => (pc = "NEW_FAILED" /\ calls = <<>>)

\* the WritePage calls among ops, and whether every one of them succeeded
WritePageCalls(ops) == { i \in 1..Len(ops) : ops[i].op = "WritePage" }
AllWritesOk(ops) == \A i \in WritePageCalls(ops) : ops[i].err.isNil

\* the sum of the record counts of the pages passed in ops
RECURSIVE RecordsPassed(_)
RecordsPassed(ops) ==
    IF ops = <<>> THEN 0
    ELSE RecordsPassed(SubSeq(ops, 1, Len(ops) - 1)) +
         (IF ops[Len(ops)].op = "WritePage" THEN Len(ops[Len(ops)].logs) ELSE 0)

\* ops ends in the one Finalize call among them, and that call succeeded
EndsInOneFinalize(ops) ==
    /\ ops # <<>>
    /\ Last(ops).op = "Finalize"
    /\ Last(ops).err.isNil
    /\ \A i \in 1..(Len(ops) - 1) : ops[i].op # "Finalize"

\* C22: buffering sink: after any sequence of WritePage calls followed by one
\* Finalize, exactly one composite document has been written; its records
\* are the concatenation of the pages' records in call order, its total is
\* the sum of the pages' record counts and its page count is the number of
\* WritePage calls (pages of 2 and 3 records give total 5 and pages 2).
C22_OneCompositeDocument ==
    (pc = "SINK" /\ writer.format = "json" /\ EndsInOneFinalize(sinkOps)) =>
        /\ dest = (IF writer.path = "" THEN dest0 ELSE <<>>) \o
                  << << "doc", OpsLogs(sinkOps), RecordsPassed(sinkOps),
                        Cardinality(WritePageCalls(sinkOps)) >> >>
        /\ (/\ Len(sinkOps) = 3
            /\ Len(sinkOps[1].logs) = 2
            /\ Len(sinkOps[2].logs) = 3
            /\ WritePageCalls(sinkOps) = {1, 2})
             => (Last(dest)[3] = 5 /\ Last(dest)[4] = 2)

C22_Witness ==
    /\ pc = "SINK"
    /\ writer.format = "json"
    /\ EndsInOneFinalize(sinkOps)
    /\ Len(sinkOps) = 3
    /\ WritePageCalls(sinkOps) = {1, 2}
    /\ Len(sinkOps[1].logs) = 2
    /\ Len(sinkOps[2].logs) = 3
    /\ Last(dest)[3] = 5
    /\ Last(dest)[4] = 2

\* C23: streaming sink: after any sequence of WritePage calls the output
\* holds one serialized unit for every record passed so far, in the order
\* passed, whether or not Finalize has been called; Finalize writes nothing
\* and changes no state.
C23_UnitPerRecord ==
    /\ [](  (pc = "SINK" /\ writer.format = "ndjson" /\ AllWritesOk(sinkOps))
              => /\ dest = KeptLines \o Lines(OpsLogs(sinkOps))
                 /\ Len(dest) - Len(KeptLines) = RecordsPassed(sinkOps)  )
    /\ [][ (CallFinalize /\ writer.format = "ndjson")
              => (writer' = writer /\ dest' = dest /\ result'.isNil) ]_vars

C23_Witness ==
    /\ pc = "SINK"
    /\ writer.format = "ndjson"
    /\ AllWritesOk(sinkOps)
    /\ Len(sinkOps) = 3
    /\ sinkOps[1].op = "WritePage" /\ Len(sinkOps[1].logs) = 2
    /\ sinkOps[2].op = "Finalize"
    /\ sinkOps[3].op = "WritePage" /\ Len(sinkOps[3].logs) = 1
    /\ Len(dest) - Len(KeptLines) = 3

\* C24: Close is idempotent for both sinks and in every sink state: a second
\* call, or a call on a sink never written to, succeeds without error and
\* leaves the sink and the destination as they were.
C24_CloseIdempotent ==
    [][ CallClose =>
          /\ (sinkOps = <<>> \/ Last(sinkOps).op = "Close") => result'.isNil
          /\ (sinkOps # <<>> /\ Last(sinkOps).op = "Close")
               => (writer' = writer /\ dest' = dest) ]_vars

\* C25: streaming sink opened on a file: with append the content the file
\* had is kept and the records written follow it, without append that
\* content is discarded; 2 records written without append and then 3 through
\* a second sink with append leave exactly 5 units in the file.
C25_AppendKeepsContent ==
    (pc = "SINK" /\ writer.format = "ndjson" /\ writer.path # ""
       /\ AllWritesOk(sinkOps)) =>
        /\ dest = (IF cfg.Append THEN dest0 ELSE <<>>) \o Lines(OpsLogs(sinkOps))
        /\ (Len(runs) = 1 /\ ~runs[1].append /\ AllWritesOk(runs[1].ops) /\ cfg.Append)
             => /\ dest = Lines(RunsLogs(runs) \o OpsLogs(sinkOps))
                /\ (RecordsPassed(runs[1].ops) = 2 /\ RecordsPassed(sinkOps) = 3)
                     => Len(dest) = 5

C25_Witness ==
    /\ pc = "SINK"
    /\ writer.format = "ndjson" /\ writer.path # ""
    /\ Len(runs) = 1 /\ ~runs[1].append /\ cfg.Append
    /\ dest0 # <<>>
    /\ AllWritesOk(runs[1].ops) /\ AllWritesOk(sinkOps)
    /\ RecordsPassed(runs[1].ops) = 2
    /\ RecordsPassed(sinkOps) = 3
    /\ Len(dest) = 5

\* C29: Config.Validate accepts a configuration if and only if query, API
\* key and app key are non-empty, 1 <= pageSize <= 5000, the format is json
\* or ndjson, append is set only with ndjson, a non-empty cursor is given
\* only with ndjson, and To is unset or From is not after To; hence the
\* Fetcher of a validated configuration that resumes from a cursor has the
\* streaming sink.
C29_ValidateAccepts ==
    pc # "CONFIG" =>
        /\ (pc # "INVALID") <=>
             /\ cfg.Query # "" /\ cfg.APIKey # "" /\ cfg.AppKey # ""
             /\ 1 <= cfg.PageSize /\ cfg.PageSize <= 5000
             /\ cfg.Format \in {"json", "ndjson"}
             /\ cfg.Append => cfg.Format = "ndjson"
             /\ cfg.Cursor # "" => cfg.Format = "ndjson"
             /\ (cfg.To = ZeroTime \/ cfg.From <= cfg.To)
        /\ pc = "INVALID" => ~result.isNil
        /\ pc = "NEW" => result.isNil
        /\ (pc = "START" /\ cfg.Cursor # "") => writer.format = "ndjson"

C29_Witness ==
    /\ pc = "START"
    /\ cfg.Cursor # ""
    /\ cfg.To # ZeroTime /\ cfg.From = cfg.To
    /\ cfg.PageSize = 5000
    /\ writer.format = "ndjson"

\* C31: at every top-of-loop point and at DONE the page count of Fetch is the
\* number of WritePage calls made on the sink, all of which succeeded, and
\* its record count is the number of records passed to the sink, a
\* terminating empty page counting as a page; so the total and the page count
\* of the document the buffering sink finalizes are the counts of the
\* completion summary.
C31_CountsMatchSink ==
    /\ pc \in {"LOOP_TOP", "DONE"} =>
         /\ pageCount = Cardinality(WritePageCalls(sinkOps))
         /\ pageCount = Len(WrittenPages)
         /\ totalLogs = RecordsPassed(sinkOps)
    /\ (pc = "DONE" /\ writer.format = "json" /\ result.isNil) =>
         /\ Last(dest)[1] = "doc"
         /\ Last(dest)[3] = totalLogs
         /\ Last(dest)[4] = pageCount
         /\ Last(errOut) = Msg("completed", "", Last(dest)[3], Last(dest)[4])

C31_Witness ==
    /\ pc = "DONE"
    /\ writer.format = "json"
    /\ result.isNil
    /\ pageCount = 2
    /\ Last(WrittenPages) = <<>>
    /\ totalLogs = 2
    /\ Last(dest)[3] = 2
    /\ Last(dest)[4] = 2

\* the calls of an operation among the calls made on the sink
CallsOf(operation) == { i \in 1..Len(sinkOps) : sinkOps[i].op = operation }

\* C32: on every exit path of Fetch (DONE, cancelled, fatal fetch error, sink
\* write error) Close is called on the sink exactly once, and a Finalize
\* called on that path is called before the Close; while Fetch runs the sink
\* is not closed.
C32_CloseOnceAfterFinalize ==
    /\ pc \in Returned =>
         /\ closeCalls = 1
         /\ CallsOf("Close") = {Len(sinkOps)}
         /\ \A i \in CallsOf("Finalize") : i < Len(sinkOps)
         /\ Cardinality(CallsOf("Finalize")) = finalizeCalls
    /\ pc \in {"START", "LOOP_TOP", "FETCHING_PAGE", "RETRY_WAIT"} =>
         /\ closeCalls = 0
         /\ CallsOf("Close") = {}

C32_Witness ==
    /\ pc = "CANCELLED"
    /\ closeCalls = 1
    /\ Len(sinkOps) = 3
    /\ sinkOps[1].op = "WritePage"
    /\ sinkOps[2].op = "Finalize"
    /\ sinkOps[3].op = "Close"

\* C33: if WritePage returns an I/O error Fetch stops at once with a "failed
\* to write page" error: no further remote call is issued, Finalize is not
\* called, the counts are not advanced for that page and the page is not
\* retried.
C33_WriteErrorStopsFetch ==
    /\ [](pc = "WRITE_FAILED" =>
            /\ result = Err("failed to write page", IOErr.msg)
            /\ finalizeCalls = 0
            /\ CallsOf("Finalize") = {}
            /\ Len(calls) = Len(resps)
            /\ Last(resps).ok
            /\ Len(sinkOps) >= 2
            /\ sinkOps[Len(sinkOps) - 1].op = "WritePage"
            /\ pageCount = Cardinality(WritePageCalls(sinkOps)) - 1
            /\ totalLogs = RecordsPassed(sinkOps) - Len(sinkOps[Len(sinkOps) - 1].logs))
    /\ [][pc = "WRITE_FAILED" => UNCHANGED vars]_vars
    /\ [][pc' = "WRITE_FAILED" =>
            (pc = "FETCHING_PAGE" /\ calls' = calls /\ waits' = waits
               /\ pageCount' = pageCount /\ totalLogs' = totalLogs)]_vars

C33_Witness ==
    /\ pc = "WRITE_FAILED"
    /\ result = Err("failed to write page", IOErr.msg)
    /\ pageCount = 1
    /\ Len(calls) = 2
    /\ Cardinality(WritePageCalls(sinkOps)) = 2
    /\ Len(dest) > Len(KeptLines) + totalLogs

\* C34: every delay ShouldRetry returns together with retry = true is
\* greater than zero, for every attempt in 0..2 and every retryable
\* classification, those included whose Retry-After value parsed to zero or
\* to a negative duration (negative seconds, an HTTP date in the past).
C34_RetryDelayPositive ==
    (pc = "DECIDED" /\ shouldRetry) =>
        /\ attempt \in 0..2
        /\ retryErr.Retryable
        /\ backoff > 0
        /\ retryErr.RetryAfter <= 0 => backoff = ExponentialBackoff(attempt)

C34_Witness ==
    /\ pc = "DECIDED"
    /\ shouldRetry
    /\ attempt = 2
    /\ ~httpResp.isNil
    /\ httpResp.StatusCode = 429
    /\ ParseTime(httpResp.RetryAfter).ok
    /\ parseRetryAfter(httpResp) < 0
    /\ retryErr = ClassifyError(callErr, httpResp)
    /\ retryErr.RetryAfter < 0
    /\ backoff = 4

\* C35: with the streaming sink on a file and no append, what the destination
\* held is discarded when the Fetcher is constructed, before any remote call,
\* so a Fetch whose first page fails fatally leaves the destination empty;
\* with the buffering sink the destination is created or modified first
\* inside Finalize.
C35_TruncatedAtConstruction ==
    /\ (writer.format = "ndjson" /\ writer.path # "" /\ ~cfg.Append) =>
         /\ calls = <<>> => dest = <<>>
         /\ (pc = "FAILED" /\ Served = 0) => dest = <<>>
    /\ (writer.format = "json" /\ finalizeCalls = 0) => dest = dest0

C35_Witness ==
    /\ pc = "FAILED"
    /\ writer.format = "ndjson" /\ writer.path # "" /\ ~cfg.Append
    /\ Served = 0
    /\ calls # <<>>
    /\ dest0 # <<>>
    /\ dest = <<>>

\* C36: when every remote call returns and every backoff timer fires, the
\* retry loop of a page always ends, in success, a fatal error or
\* cancellation, never granting more than 3 retries; and with a remote that
\* in the end returns a last page or a failure that is denied a retry the
\* whole run ends. Fetch itself puts no bound on the number of pages: at the
\* top of the loop it issues the next call whenever it is not cancelled.
C36_Termination ==
    /\ (pc \in {"FETCHING_PAGE", "RETRY_WAIT"}) ~> (pc \in {"LOOP_TOP"} \cup Returned)
    /\ <>(pc \in Returned)
    /\ [](attempt <= maxRetries)
    /\ []((pc = "LOOP_TOP" /\ ~cancelled) => ENABLED IssueCall)

C36_Witness ==
    /\ pc = "DONE"
    /\ pageCount = MaxPages
    /\ Failed >= maxRetries
    /\ \E i \in 1..Len(calls) : calls[i].attempt = maxRetries

====
